---- MODULE Spec2Model ----
(***************************************************************************)
(* Model of the vanilla-JS dashboard script app/static/js/dashboard.js:    *)
(* the forecast series sanitizer and summary of renderPredictionCharts,    *)
(* the helper getRangeDisplay, the Markdown normalizer formatMarkdown, and *)
(* the page itself: the DOMContentLoaded handler, the change handlers, the *)
(* loads of loadDashboardData and the feedback form; and of the React page *)
(* components Dashboard, DataIngestion, MarketAnalysis and Reports.  Each  *)
(* part has its own specification (SpecRender, SpecRange, SpecMarkdown,    *)
(* SpecDashboard, SpecFeedback, SpecReact); the variables of the other     *)
(* parts stay at their idle values.                                        *)
(*                                                                         *)
(* JavaScript values are records [t, n, d]: t is the kind of the value     *)
(* ("num", "nan", "inf", "undefined", "null", "string") and n/d is the     *)
(* value of a finite number as a reduced fraction (d > 0).  Numbers are    *)
(* exact rationals: the rounding error of IEEE doubles is not modelled.    *)
(* Strings produced by the script are sequences of one-character strings.  *)
(***************************************************************************)
EXTENDS Integers, Sequences, FiniteSets, TLC

VARIABLES
    pc,              \* position of the render call: "start", "done", "thrown"
    prediction,      \* the Prediction handed to the forEach callback
    forecastValues,  \* const forecastValues (line 386)
    lowerCI,         \* const lowerCI (line 387)
    upperCI,         \* const upperCI (line 388)
    avgForecast,     \* const avgForecast (line 468)
    percentChange,   \* const percentChange (line 472)
    trendClass,      \* const trendClass (line 475)
    trendIcon,       \* const trendIcon (line 476)
    summary,         \* the strings interpolated into summaryDiv.innerHTML
    rpc,             \* position of a direct getRangeDisplay call
    lowerArray,      \* argument lowerArray of getRangeDisplay
    upperArray,      \* argument upperArray of getRangeDisplay
    rangeResult,     \* value returned by getRangeDisplay
    mdpc,            \* position of a formatMarkdown call
    text,            \* argument text of formatMarkdown
    html,            \* let html of formatMarkdown; the value returned at "done"
    dashpc,          \* the page: "loading" before DOMContentLoaded, then "ready"
    symbolSelector,  \* "null" or "element" (line 21)
    timeHorizonSelector,      \* "null" or "element" (line 22)
    analysisReportContainer,  \* what the element shows, NullElement if missing
    chartContainer,           \* what the element shows, NullElement if missing
    visualizationContainer,   \* what the element shows, NullElement if missing
    loadingSpinner,  \* style.display of the spinner, "null" if it is missing
    alertContainer,  \* "null" or "element" (lines 579, 600)
    alerts,          \* the messages appended to the alert container so far
    checkboxes,      \* the values of the .symbol-checkbox inputs on the page
    checked,         \* the values of the checked ones
    currentSymbols,  \* let currentSymbols (line 14), as a set
    currentTimeHorizon,       \* let currentTimeHorizon (line 15)
    predictions,     \* let predictions (line 16)
    chartInstances,  \* let chartInstances (line 17), as a set of charts
    runs,            \* the loadDashboardData calls that went past line 125:
                     \* the load each one awaits ("done" after line 160)
                     \* and the loads it has started, in order
    pending,         \* the fetches whose promise has not settled
    feedbackForm,    \* "null" or "element" (line 27)
    feedbackTextarea,         \* "null" or "element" (line 28)
    feedbackValue,   \* feedbackTextarea.value
    submits,         \* the submitAnalystFeedback calls that went past line 502
    overlapped,      \* history: some loadDashboardData call went past line 125
                     \* while an earlier one was awaiting a load
    component,       \* the page component the router has mounted
    loading,         \* const [loading, setLoading] of the mounted component
    error,           \* const [error, setError], "null" for null
    requests,        \* the api calls of the component that have not settled
    recentActivity,  \* Dashboard: const [recentActivity, setRecentActivity]
    financialData,   \* DataIngestion: const [financialData, setFinancialData]
    stock,           \* MarketAnalysis: const [stock, setStock]
    timeframe,       \* MarketAnalysis: const [timeframe, setTimeframe]
    analysis,        \* MarketAnalysis: const [prediction, setPrediction]
    feedback,        \* MarketAnalysis: const [feedback, setFeedback]
    reportTemplate,  \* Reports: const [reportTemplate, setReportTemplate]
    reportState      \* Reports: const [report, setReport]

vars == <<pc, prediction, forecastValues, lowerCI, upperCI, avgForecast,
          percentChange, trendClass, trendIcon, summary,
          rpc, lowerArray, upperArray, rangeResult,
          mdpc, text, html,
          dashpc, symbolSelector, timeHorizonSelector, analysisReportContainer,
          chartContainer, visualizationContainer, loadingSpinner, alertContainer,
          alerts, checkboxes, checked, currentSymbols, currentTimeHorizon, predictions,
          chartInstances, runs, pending,
          feedbackForm, feedbackTextarea, feedbackValue, submits, overlapped,
          component, loading, error, requests, recentActivity, financialData,
          stock, timeframe, analysis, feedback, reportTemplate, reportState>>

renderVars == <<pc, prediction, forecastValues, lowerCI, upperCI, avgForecast,
                percentChange, trendClass, trendIcon, summary>>

rangeVars == <<rpc, lowerArray, upperArray, rangeResult>>

markdownVars == <<mdpc, text, html>>

domVars == <<symbolSelector, timeHorizonSelector, analysisReportContainer,
             chartContainer, visualizationContainer, loadingSpinner,
             alertContainer, alerts, checkboxes, checked>>

feedbackVars == <<feedbackForm, feedbackTextarea, feedbackValue, submits>>

dashboardVars == <<dashpc, domVars, currentSymbols, currentTimeHorizon,
                   predictions, chartInstances, runs, pending, feedbackVars,
                   overlapped>>

reactVars == <<component, loading, error, requests, recentActivity,
               financialData, stock, timeframe, analysis, feedback,
               reportTemplate, reportState>>

----------------------------------------------------------------------------
(* Bounds of the model *)

\* longest prediction.forecast array whose points take every combination of
\* field values
MaxLen == 1

\* longest prediction.forecast array made of the representative points
MaxSeries == 2

\* longest array handed to a direct call of getRangeDisplay
MaxArr == 2

----------------------------------------------------------------------------
(* JavaScript numbers and values *)

AbsInt(i) == IF i < 0 THEN -i ELSE i

SignInt(i) == IF i < 0 THEN -1 ELSE IF i > 0 THEN 1 ELSE 0

RECURSIVE GCD(_, _)
GCD(a, b) == IF b = 0 THEN a ELSE GCD(b, a % b)

\* the finite number n/d, reduced
Rat(n, d) ==
    LET g == GCD(AbsInt(n), AbsInt(d))
        s == IF d < 0 THEN -1 ELSE 1
    IN  [t |-> "num", n |-> (s * n) \div g, d |-> (s * d) \div g]

Num(i) == Rat(i, 1)

NaN == [t |-> "nan", n |-> 0, d |-> 1]

\* +Infinity (s = 1) and -Infinity (s = -1)
Inf(s) == [t |-> "inf", n |-> s, d |-> 0]

undefined == [t |-> "undefined", n |-> 0, d |-> 1]

null == [t |-> "null", n |-> 0, d |-> 1]

\* a string that is not a numeric literal, such as "N/A"
NonNumericString == [t |-> "string", n |-> 0, d |-> 1]

\* ToNumber of ECMAScript: the numeric coercion behind isNaN, *, -, / and >
ToNumber(v) ==
    CASE v.t = "num" -> v
      [] v.t = "nan" -> NaN
      [] v.t = "inf" -> v
      [] v.t = "undefined" -> NaN
      [] v.t = "null" -> Num(0)
      [] v.t = "string" -> NaN

\* the global isNaN(v): true iff ToNumber(v) is NaN
isNaN(v) == ToNumber(v).t = "nan"

\* a * b
Mul(a, b) ==
    LET x == ToNumber(a)
        y == ToNumber(b)
    IN  IF x.t = "nan" \/ y.t = "nan" THEN NaN
        ELSE IF x.t = "inf" \/ y.t = "inf"
             THEN IF x.n = 0 \/ y.n = 0 THEN NaN
                  ELSE Inf(SignInt(x.n) * SignInt(y.n))
        ELSE Rat(x.n * y.n, x.d * y.d)

\* a + b on numbers (the script adds numbers only)
Add(a, b) ==
    LET x == ToNumber(a)
        y == ToNumber(b)
    IN  IF x.t = "nan" \/ y.t = "nan" THEN NaN
        ELSE IF x.t = "inf" /\ y.t = "inf"
             THEN IF x.n = y.n THEN x ELSE NaN
        ELSE IF x.t = "inf" THEN x
        ELSE IF y.t = "inf" THEN y
        ELSE Rat(x.n * y.d + y.n * x.d, x.d * y.d)

\* a - b
Sub(a, b) ==
    LET y == ToNumber(b)
    IN  Add(a, IF y.t = "nan" THEN NaN
               ELSE IF y.t = "inf" THEN Inf(-y.n)
               ELSE Rat(-y.n, y.d))

\* a / b: a division by zero yields Infinity or NaN, never an exception
Div(a, b) ==
    LET x == ToNumber(a)
        y == ToNumber(b)
    IN  IF x.t = "nan" \/ y.t = "nan" THEN NaN
        ELSE IF x.t = "inf"
             THEN IF y.t = "inf" THEN NaN
                  ELSE Inf(x.n * (IF y.n < 0 THEN -1 ELSE 1))
        ELSE IF y.t = "inf" THEN Num(0)
        ELSE IF y.n = 0
             THEN IF x.n = 0 THEN NaN ELSE Inf(SignInt(x.n))
        ELSE Rat(x.n * y.d, x.d * y.n)

\* a > b: false when either side coerces to NaN
Gt(a, b) ==
    LET x == ToNumber(a)
        y == ToNumber(b)
    IN  IF x.t = "nan" \/ y.t = "nan" THEN FALSE
        ELSE IF x.t = "inf" /\ y.t = "inf" THEN x.n > y.n
        ELSE x.n * y.d > y.n * x.d

\* a < b
Lt(a, b) == Gt(b, a)

\* Math.abs(a)
MathAbs(a) ==
    LET x == ToNumber(a)
    IN  IF x.t = "nan" THEN NaN
        ELSE IF x.t = "inf" THEN Inf(1)
        ELSE Rat(AbsInt(x.n), x.d)

----------------------------------------------------------------------------
(* Strings, Number.prototype.toFixed, Math.min and Math.max *)

DigitChar(i) == <<"0", "1", "2", "3", "4", "5", "6", "7", "8", "9">>[i + 1]

\* the decimal digits of a natural number
RECURSIVE NatToChars(_)
NatToChars(k) ==
    IF k < 10 THEN <<DigitChar(k)>>
    ELSE NatToChars(k \div 10) \o <<DigitChar(k % 10)>>

\* v.toFixed is callable only on a number: undefined and null have no
\* properties, and a string has no toFixed method (both raise a TypeError)
HasToFixed(v) == v.t \in {"num", "nan", "inf"}

\* v.toFixed(2) for a number v: the sign, then the integer n for which
\* n / 100 - |v| is closest to zero (the larger n on a tie), as digits
toFixed2(v) ==
    CASE v.t = "nan" -> <<"N", "a", "N">>
      [] v.t = "inf" ->
            (IF v.n < 0 THEN <<"-">> ELSE <<>>)
                \o <<"I", "n", "f", "i", "n", "i", "t", "y">>
      [] v.t = "num" ->
            LET a == AbsInt(v.n)
                cents == (200 * a + v.d) \div (2 * v.d)
            IN  (IF v.n < 0 THEN <<"-">> ELSE <<>>)
                    \o NatToChars(cents \div 100)
                    \o <<".", DigitChar((cents % 100) \div 10), DigitChar(cents % 10)>>

\* Math.min(...values): +Infinity for no argument, NaN if any argument is NaN
RECURSIVE MathMin(_)
MathMin(values) ==
    IF Len(values) = 0 THEN Inf(1)
    ELSE LET x == ToNumber(Head(values))
             m == MathMin(Tail(values))
         IN  IF x.t = "nan" \/ m.t = "nan" THEN NaN
             ELSE IF Lt(x, m) THEN x ELSE m

\* Math.max(...values): -Infinity for no argument, NaN if any argument is NaN
RECURSIVE MathMax(_)
MathMax(values) ==
    IF Len(values) = 0 THEN Inf(-1)
    ELSE LET x == ToNumber(Head(values))
             m == MathMax(Tail(values))
         IN  IF x.t = "nan" \/ m.t = "nan" THEN NaN
             ELSE IF Gt(x, m) THEN x ELSE m

----------------------------------------------------------------------------
(* getRangeDisplay (lines 620-634) *)

RangeNotAvailable ==
    <<"R", "a", "n", "g", "e", " ", "n", "o", "t", " ",
      "a", "v", "a", "i", "l", "a", "b", "l", "e">>

\* IsValidBound with the NaN test lost: every element is kept
IsValidBound_KeepAll(val) == TRUE

\* the predicate of both filters: val => !isNaN(val)
IsValidBound(val) == ~isNaN(val)

getRangeDisplay(lowerArr, upperArr) ==
    LET validLower == SelectSeq(lowerArr, IsValidBound)
        validUpper == SelectSeq(upperArr, IsValidBound)
    IN  IF Len(validLower) = 0 \/ Len(validUpper) = 0
        THEN RangeNotAvailable
        ELSE LET minValue == MathMin(validLower)
                 maxValue == MathMax(validUpper)
             IN  <<"$">> \o toFixed2(minValue) \o <<" ", "-", " ", "$">>
                     \o toFixed2(maxValue)

----------------------------------------------------------------------------
(* renderPredictionCharts: the callback of predictions.forEach (377-490) *)

\* forecastValue without its NaN guard
forecastValue_Unguarded(point) == point.forecast

\* point => isNaN(point.forecast) ? 0 : point.forecast
forecastValue(point) ==
    IF isNaN(point.forecast) THEN Num(0) ELSE point.forecast

\* lowerValue falling back to 0 whatever the forecast is
lowerValue_ZeroFallback(point) ==
    IF isNaN(point.lower_ci) THEN Num(0) ELSE point.lower_ci

\* lowerValue without any fallback
lowerValue_PassThrough(point) == point.lower_ci

\* point => isNaN(point.lower_ci)
\*            ? (isNaN(point.forecast) ? 0 : point.forecast * 0.9) : point.lower_ci
lowerValue(point) ==
    IF isNaN(point.lower_ci)
    THEN (IF isNaN(point.forecast) THEN Num(0) ELSE Mul(point.forecast, Rat(9, 10)))
    ELSE point.lower_ci

\* upperValue falling back to 0 whatever the forecast is
upperValue_ZeroFallback(point) ==
    IF isNaN(point.upper_ci) THEN Num(0) ELSE point.upper_ci

\* point => isNaN(point.upper_ci)
\*            ? (isNaN(point.forecast) ? 0 : point.forecast * 1.1) : point.upper_ci
upperValue(point) ==
    IF isNaN(point.upper_ci)
    THEN (IF isNaN(point.forecast) THEN Num(0) ELSE Mul(point.forecast, Rat(11, 10)))
    ELSE point.upper_ci

\* IsValidValue without the test value > 0
IsValidValue_NoSignTest(value) == ~isNaN(value)

\* the predicate of the filter: value => !isNaN(value) && value > 0
IsValidValue(value) == ~isNaN(value) /\ Gt(value, Num(0))

validValues(values) == SelectSeq(values, IsValidValue)

\* values.reduce((a, b) => a + b, 0)
RECURSIVE Reduce(_, _)
Reduce(values, acc) ==
    IF Len(values) = 0 THEN acc
    ELSE Reduce(Tail(values), Add(acc, Head(values)))

\* validValues.length > 0
\*     ? validValues.reduce((a, b) => a + b, 0) / validValues.length
\*     : prediction.last_price
AvgForecast(values, last_price) ==
    IF Len(validValues(values)) > 0
    THEN Div(Reduce(validValues(values), Num(0)), Num(Len(validValues(values))))
    ELSE last_price

\* PercentChange without the guard last_price > 0
PercentChange_Unguarded(avg, last_price) ==
    Mul(Div(Sub(avg, last_price), last_price), Num(100))

\* prediction.last_price > 0
\*     ? ((avgForecast - prediction.last_price) / prediction.last_price) * 100 : 0
PercentChange(avg, last_price) ==
    IF Gt(last_price, Num(0))
    THEN Mul(Div(Sub(avg, last_price), last_price), Num(100))
    ELSE Num(0)

\* percentChange > 0 ? 'trend-up' : (percentChange < 0 ? 'trend-down' : 'trend-neutral')
TrendClass(change) ==
    IF Gt(change, Num(0)) THEN "trend-up"
    ELSE IF Lt(change, Num(0)) THEN "trend-down" ELSE "trend-neutral"

\* TrendIcon without the neutral case
TrendIcon_NoNeutral(change) ==
    IF Gt(change, Num(0)) THEN "up-arrow" ELSE "down-arrow"

\* percentChange > 0 ? up arrow : (percentChange < 0 ? down arrow : right arrow);
\* the three arrow characters are named "up-arrow", "down-arrow", "right-arrow"
TrendIcon(change) ==
    IF Gt(change, Num(0)) THEN "up-arrow"
    ELSE IF Lt(change, Num(0)) THEN "down-arrow" ELSE "right-arrow"

\* the template literal of summaryDiv.innerHTML evaluates its expressions in
\* order; the first toFixed on a value without that method throws
SummaryThrows(last_price, avg) == ~HasToFixed(last_price) \/ ~HasToFixed(avg)

NoSummary ==
    [lastPrice |-> <<>>, trendClass |-> "", avg |-> <<>>, trendIcon |-> "",
     change |-> <<>>, range |-> <<>>]

Summary(last_price, avg, change, lower, upper) ==
    [lastPrice |-> toFixed2(last_price),
     trendClass |-> TrendClass(change),
     avg |-> toFixed2(avg),
     trendIcon |-> TrendIcon(change),
     change |-> toFixed2(MathAbs(change)),
     range |-> getRangeDisplay(lower, upper)]

----------------------------------------------------------------------------
(* Inputs *)

\* values of point.forecast: valid prices, zero, a negative number and the
\* missing or invalid values of the external JSON shape
ForecastInputs ==
    {Num(120), Num(80), Num(0), Num(-10), NaN, undefined, null, NonNumericString}

\* values of point.lower_ci and point.upper_ci
LowerInputs == {Num(70), NaN, undefined, null}

UpperInputs == {Num(130), NaN, undefined, null}

\* values of prediction.last_price
LastPriceInputs == {Num(100), Num(0), Num(-5), NaN, undefined, null, NonNumericString}

ForecastPoints ==
    [forecast : ForecastInputs, lower_ci : LowerInputs, upper_ci : UpperInputs]

ArraysOf(S, maxLen) == UNION {[1..k -> S] : k \in 0..maxLen}

\* representative points of a longer series: every forecast value, with both
\* bounds valid, both invalid, or both null
SeriesPoints ==
    {[forecast |-> f, lower_ci |-> b[1], upper_ci |-> b[2]] :
        f \in ForecastInputs,
        b \in {<<Num(70), Num(130)>>, <<NonNumericString, NaN>>, <<null, null>>}}

Predictions ==
    [last_price : LastPriceInputs,
     forecast : ArraysOf(ForecastPoints, MaxLen) \cup ArraysOf(SeriesPoints, MaxSeries)]

\* arguments of a direct getRangeDisplay call: numbers (some of them round
\* under toFixed) and NaN
RangeInputs == {Num(70), Num(130), Num(-5), Rat(19999, 200), Rat(1, 3), NaN}

NoPrediction == [last_price |-> undefined, forecast |-> <<>>]

----------------------------------------------------------------------------
(* The render of one prediction *)

RenderIdle ==
    /\ prediction = NoPrediction
    /\ forecastValues = <<>>
    /\ lowerCI = <<>>
    /\ upperCI = <<>>
    /\ avgForecast = undefined
    /\ percentChange = undefined
    /\ trendClass = ""
    /\ trendIcon = ""
    /\ summary = NoSummary

RangeIdle ==
    /\ rpc = "idle"
    /\ lowerArray = <<>>
    /\ upperArray = <<>>
    /\ rangeResult = <<>>

MarkdownIdle ==
    /\ mdpc = "idle"
    /\ text = undefined
    /\ html = <<>>

\* what an element shows: the kind of its content and, for content built
\* from a response, the symbols and the time horizon of the request
Content(kind, symbols, horizon) ==
    [kind |-> kind, symbols |-> symbols, horizon |-> horizon]

\* a getElementById that found nothing
NullElement == Content("null", {}, "")

\* the markup of the page before the script writes to the element
Template == Content("template", {}, "")

\* let predictions = [] (line 16): an array of no predictions
NoPredictions == Content("array", {}, "")

\* the globals of lines 4-17 before DOMContentLoaded
DashboardIdle ==
    /\ symbolSelector = "null"
    /\ timeHorizonSelector = "null"
    /\ analysisReportContainer = NullElement
    /\ chartContainer = NullElement
    /\ visualizationContainer = NullElement
    /\ loadingSpinner = "null"
    /\ alertContainer = "null"
    /\ alerts = {}
    /\ checkboxes = {}
    /\ checked = {}
    /\ currentSymbols = {}
    /\ currentTimeHorizon = "6mo"
    /\ predictions = NoPredictions
    /\ chartInstances = {}
    /\ runs = <<>>
    /\ pending = {}
    /\ feedbackForm = "null"
    /\ feedbackTextarea = "null"
    /\ feedbackValue = <<>>
    /\ submits = 0
    /\ overlapped = FALSE

\* the useState initial values of the page components (Dashboard.tsx lines
\* 6-8, DataIngestion.tsx lines 41-43, MarketAnalysis.tsx lines 40-45,
\* Reports lines 45-48)
InitialState ==
    /\ loading = FALSE
    /\ error = "null"
    /\ requests = <<>>
    /\ recentActivity = <<>>
    /\ financialData = "empty"
    /\ stock = ""
    /\ timeframe = "1-week"
    /\ analysis = "null"
    /\ feedback = ""
    /\ reportTemplate = "pdf"
    /\ reportState = "null"

\* no page component is mounted
ReactIdle == component = "none" /\ InitialState

InitRender ==
    /\ pc = "start"
    /\ prediction \in Predictions
    /\ forecastValues = <<>>
    /\ lowerCI = <<>>
    /\ upperCI = <<>>
    /\ avgForecast = undefined
    /\ percentChange = undefined
    /\ trendClass = ""
    /\ trendIcon = ""
    /\ summary = NoSummary
    /\ RangeIdle
    /\ MarkdownIdle
    /\ dashpc = "idle"
    /\ DashboardIdle
    /\ ReactIdle

\* the body of the forEach callback for one prediction: the three series
\* (prediction.forecast.map of each callback) handed to the chart, then the
\* summary; a toFixed on a non-number aborts the callback before
\* summaryDiv.innerHTML is assigned
RenderPrediction ==
    /\ pc = "start"
    /\ LET forecast == prediction.forecast
           values == [i \in 1..Len(forecast) |-> forecastValue(forecast[i])]
           lower == [i \in 1..Len(forecast) |-> lowerValue(forecast[i])]
           upper == [i \in 1..Len(forecast) |-> upperValue(forecast[i])]
           avg == AvgForecast(values, prediction.last_price)
           change == PercentChange(avg, prediction.last_price)
       IN  /\ forecastValues' = values
           /\ lowerCI' = lower
           /\ upperCI' = upper
           /\ avgForecast' = avg
           /\ percentChange' = change
           /\ trendClass' = TrendClass(change)
           /\ trendIcon' = TrendIcon(change)
           /\ IF SummaryThrows(prediction.last_price, avg)
              THEN /\ pc' = "thrown"
                   /\ summary' = NoSummary
              ELSE /\ pc' = "done"
                   /\ summary' = Summary(prediction.last_price, avg, change, lower, upper)
    /\ UNCHANGED <<prediction, rangeVars, markdownVars, dashboardVars, reactVars>>

NextRender == RenderPrediction

SpecRender == InitRender /\ [][NextRender]_vars

----------------------------------------------------------------------------
(* A direct call of getRangeDisplay *)

InitRange ==
    /\ rpc = "start"
    /\ lowerArray \in ArraysOf(RangeInputs, MaxArr)
    /\ upperArray \in ArraysOf(RangeInputs, MaxArr)
    /\ rangeResult = <<>>
    /\ pc = "idle"
    /\ RenderIdle
    /\ MarkdownIdle
    /\ dashpc = "idle"
    /\ DashboardIdle
    /\ ReactIdle

CallGetRangeDisplay ==
    /\ rpc = "start"
    /\ rangeResult' = getRangeDisplay(lowerArray, upperArray)
    /\ rpc' = "done"
    /\ UNCHANGED <<lowerArray, upperArray, renderVars, markdownVars, dashboardVars, reactVars>>

NextRange == CallGetRangeDisplay

SpecRange == InitRange /\ [][NextRange]_vars

----------------------------------------------------------------------------
(* Vocabulary of the properties *)

\* the callback has run for the prediction: its locals are computed
Rendered == pc \in {"done", "thrown"}

\* a field that is NaN or absent
Missing(v) == v.t \in {"nan", "undefined"}

\* a field that is a (finite) number
ValidNumber(v) == v.t = "num"

\* the number f * k / 10 for a finite number f
Scaled(f, k) == Rat(f.n * k, f.d * 10)

Points == prediction.forecast

\* the indices of the original forecast values that are non-NaN and > 0
Qualifying ==
    {i \in 1..Len(Points) : ValidNumber(Points[i].forecast) /\ Points[i].forecast.n > 0}

\* the sum of the original forecast values at the indices I
RECURSIVE SumAt(_)
SumAt(I) ==
    IF I = {} THEN Num(0)
    ELSE LET i == CHOOSE j \in I : TRUE
         IN  Add(Points[i].forecast, SumAt(I \ {i}))

MeanOfQualifying == Div(SumAt(Qualifying), Num(Cardinality(Qualifying)))

\* C1: the three series are as long as prediction.forecast and every element
\* of each is a real number (never NaN, undefined or a non-number)
C1_SeriesFullyNumeric ==
    Rendered =>
        /\ Len(forecastValues) = Len(Points)
        /\ Len(lowerCI) = Len(Points)
        /\ Len(upperCI) = Len(Points)
        /\ \A i \in 1..Len(Points) :
              /\ ValidNumber(forecastValues[i])
              /\ ValidNumber(lowerCI[i])
              /\ ValidNumber(upperCI[i])

\* C2: the sanitizing and summary computation of a prediction completes
\* without an exception, whatever last_price and the point fields are
C2_NeverThrows == pc # "thrown"

\* C3: for a point with a valid forecast f, a lower_ci (upper_ci) that is NaN
\* or absent is replaced by f * 0.9 (f * 1.1), and a bound that is a valid
\* number is passed through unchanged
C3_BoundFallback ==
    Rendered =>
        \A i \in 1..Len(Points) :
            /\ ValidNumber(Points[i].lower_ci) => lowerCI[i] = Points[i].lower_ci
            /\ ValidNumber(Points[i].upper_ci) => upperCI[i] = Points[i].upper_ci
            /\ ValidNumber(Points[i].forecast) =>
                  /\ Missing(Points[i].lower_ci) =>
                        lowerCI[i] = Scaled(Points[i].forecast, 9)
                  /\ Missing(Points[i].upper_ci) =>
                        upperCI[i] = Scaled(Points[i].forecast, 11)

C3_Witness ==
    /\ Rendered
    /\ \E i \in 1..Len(Points) :
          /\ Points[i].forecast = Num(120)
          /\ Points[i].lower_ci = NaN
          /\ Points[i].upper_ci = undefined
          /\ lowerCI[i] = Num(108)
          /\ upperCI[i] = Num(132)

\* C4: for a point whose forecast is NaN or absent the sanitized forecast is
\* 0, each bound that is NaN or absent too becomes 0, and a bound that is a
\* valid number is kept
C4_MissingForecast ==
    Rendered =>
        \A i \in 1..Len(Points) :
            Missing(Points[i].forecast) =>
                /\ forecastValues[i] = Num(0)
                /\ Missing(Points[i].lower_ci) => lowerCI[i] = Num(0)
                /\ Missing(Points[i].upper_ci) => upperCI[i] = Num(0)
                /\ ValidNumber(Points[i].lower_ci) => lowerCI[i] = Points[i].lower_ci
                /\ ValidNumber(Points[i].upper_ci) => upperCI[i] = Points[i].upper_ci

C4_Witness ==
    /\ Rendered
    /\ \E i \in 1..Len(Points) :
          /\ Points[i].forecast = undefined
          /\ Points[i].lower_ci = NaN
          /\ Points[i].upper_ci = Num(130)
          /\ forecastValues[i] = Num(0)
          /\ lowerCI[i] = Num(0)
          /\ upperCI[i] = Num(130)

\* C5 as stated: when only the bounds of a point are missing (its forecast is
\* a valid number), the fallback of the bound is 0
C5_FallbackIsZero ==
    Rendered =>
        \A i \in 1..Len(Points) :
            ValidNumber(Points[i].forecast) =>
                /\ Missing(Points[i].lower_ci) => lowerCI[i] = Num(0)
                /\ Missing(Points[i].upper_ci) => upperCI[i] = Num(0)

\* C5 as amended: when only the bounds of a point are missing (its forecast is
\* a valid number f), the fallback is taken from the point's own forecast: it
\* stands to f as 9 to 10 (lower) and as 11 to 10 (upper), and it is 0 only
\* if f is 0
C5_FallbackUsesForecast ==
    Rendered =>
        \A i \in 1..Len(Points) :
            LET f == Points[i].forecast
            IN  ValidNumber(f) =>
                  /\ Missing(Points[i].lower_ci) =>
                        /\ ValidNumber(lowerCI[i])
                        /\ lowerCI[i].n * f.d * 10 = f.n * 9 * lowerCI[i].d
                        /\ (lowerCI[i] = Num(0)) <=> (f = Num(0))
                  /\ Missing(Points[i].upper_ci) =>
                        /\ ValidNumber(upperCI[i])
                        /\ upperCI[i].n * f.d * 10 = f.n * 11 * upperCI[i].d
                        /\ (upperCI[i] = Num(0)) <=> (f = Num(0))

C5_Witness ==
    /\ Rendered
    /\ \E i \in 1..Len(Points) :
          /\ Points[i].forecast = Num(80)
          /\ Missing(Points[i].lower_ci)
          /\ Missing(Points[i].upper_ci)
          /\ lowerCI[i] = Num(72)
          /\ upperCI[i] = Num(88)

C6_WitnessExcluded ==
    /\ Rendered
    /\ Len(Points) = 2
    /\ Points[1].forecast \in {Num(0), Num(-10), NaN, undefined}
    /\ Points[2].forecast = Num(80)
    /\ avgForecast = Num(80)

\* C7: percentChange is ((averageForecast - last_price) / last_price) * 100
\* when last_price > 0 and 0 when last_price is 0, negative or NaN; it is
\* always a finite number, so no division by zero has produced it
C7_PercentChange ==
    Rendered =>
        LET last == prediction.last_price
            avg == avgForecast
        IN  /\ ValidNumber(percentChange)
            /\ (ValidNumber(last) /\ last.n > 0) =>
                  /\ ValidNumber(avg)
                  /\ percentChange =
                        Rat((avg.n * last.d - last.n * avg.d) * last.d * 100,
                            avg.d * last.d * last.n)
            /\ ((ValidNumber(last) /\ last.n <= 0) \/ last = NaN) =>
                  percentChange = Num(0)

C7_Witness ==
    /\ Rendered
    /\ prediction.last_price = Num(0)
    /\ avgForecast = Num(120)
    /\ percentChange = Num(0)

\* a second case of C7: a positive last price
C7_WitnessPositive ==
    /\ Rendered
    /\ prediction.last_price = Num(100)
    /\ avgForecast = Num(80)
    /\ percentChange = Num(-20)

\* the elements of an array that are not NaN
NonNaN(array) == {array[i] : i \in {j \in 1..Len(array) : array[j].t # "nan"}}

\* the least and the greatest of a non-empty set of finite numbers
Least(S) == CHOOSE x \in S : \A y \in S : x.n * y.d <= y.n * x.d

Greatest(S) == CHOOSE x \in S : \A y \in S : x.n * y.d >= y.n * x.d

\* C8: getRangeDisplay returns "Range not available" iff lowerArray or
\* upperArray has no non-NaN element; otherwise it returns "$<min> - $<max>",
\* min the minimum of the non-NaN elements of lowerArray and max the maximum
\* of the non-NaN elements of upperArray, to two decimal places
C8_RangeDisplay ==
    rpc = "done" =>
        /\ (rangeResult = RangeNotAvailable)
              <=> (NonNaN(lowerArray) = {} \/ NonNaN(upperArray) = {})
        /\ (NonNaN(lowerArray) # {} /\ NonNaN(upperArray) # {}) =>
              rangeResult = <<"$">> \o toFixed2(Least(NonNaN(lowerArray)))
                              \o <<" ", "-", " ", "$">>
                              \o toFixed2(Greatest(NonNaN(upperArray)))

C8_Witness ==
    /\ rpc = "done"
    /\ lowerArray = <<NaN, Num(70)>>
    /\ upperArray = <<Num(130), NaN>>
    /\ rangeResult = <<"$", "7", "0", ".", "0", "0", " ", "-", " ",
                       "$", "1", "3", "0", ".", "0", "0">>

\* a second case of C8: every element of one array is NaN
C8_WitnessSentinel ==
    /\ rpc = "done"
    /\ lowerArray = <<NaN, NaN>>
    /\ upperArray = <<Num(130), Num(70)>>
    /\ rangeResult = RangeNotAvailable

\* C9 as stated: the range of the rendered summary is "Range not available"
\* whenever every point's lower_ci is NaN or absent or every point's upper_ci
\* is NaN or absent
C9_SentinelWhenBoundsMissing ==
    (/\ pc = "done"
     /\ \/ \A i \in 1..Len(Points) : Missing(Points[i].lower_ci)
        \/ \A i \in 1..Len(Points) : Missing(Points[i].upper_ci))
    => summary.range = RangeNotAvailable

\* C9 as amended: the range of the rendered summary is "Range not available"
\* exactly when prediction.forecast is empty; points whose bounds are all
\* missing yield a range computed from the fallback values
C9_SentinelIffEmpty ==
    pc = "done" =>
        ((summary.range = RangeNotAvailable) <=> (Len(Points) = 0))

C9_Witness ==
    /\ pc = "done"
    /\ Len(Points) = 1
    /\ Points[1].forecast = Num(120)
    /\ Missing(Points[1].lower_ci)
    /\ Missing(Points[1].upper_ci)
    /\ summary.range = <<"$", "1", "0", "8", ".", "0", "0", " ", "-", " ",
                         "$", "1", "3", "2", ".", "0", "0">>

\* a second case of C9: the empty forecast
C9_WitnessEmpty ==
    /\ pc = "done"
    /\ Len(Points) = 0
    /\ summary.range = RangeNotAvailable

\* C10: the trend is exactly one of up, down and neutral, by the sign of
\* percentChange; the CSS class and the icon agree; the trend is neutral
\* whenever last_price <= 0 or no forecast value is valid
C10_Trend ==
    Rendered =>
        /\ ValidNumber(percentChange)
        /\ trendClass \in {"trend-up", "trend-down", "trend-neutral"}
        /\ (trendClass = "trend-up") <=> (percentChange.n > 0)
        /\ (trendClass = "trend-down") <=> (percentChange.n < 0)
        /\ (trendClass = "trend-neutral") <=> (percentChange.n = 0)
        /\ (trendIcon = "up-arrow") <=> (trendClass = "trend-up")
        /\ (trendIcon = "down-arrow") <=> (trendClass = "trend-down")
        /\ (trendIcon = "right-arrow") <=> (trendClass = "trend-neutral")
        /\ ((ValidNumber(prediction.last_price) /\ prediction.last_price.n <= 0)
                \/ Qualifying = {})
              => trendClass = "trend-neutral"
        /\ pc = "done" =>
              (summary.trendClass = trendClass /\ summary.trendIcon = trendIcon)

C10_Witness ==
    /\ pc = "done"
    /\ prediction.last_price = Num(100)
    /\ Len(Points) = 2
    /\ Qualifying = {}
    /\ trendClass = "trend-neutral"
    /\ trendIcon = "right-arrow"

\* further cases of C10: a rising and a falling forecast
C10_WitnessUp ==
    /\ pc = "done"
    /\ percentChange = Num(20)
    /\ summary.trendClass = "trend-up"
    /\ summary.trendIcon = "up-arrow"

C10_WitnessDown ==
    /\ pc = "done"
    /\ percentChange = Num(-20)
    /\ summary.trendClass = "trend-down"
    /\ summary.trendIcon = "down-arrow"

----------------------------------------------------------------------------
(* formatMarkdown (lines 637-681): the regular expressions                 *)
(*                                                                         *)
(* A string is a sequence of one-character strings.  Each .replace call    *)
(* with flag g scans its input from left to right; at every position it    *)
(* tries the pattern, emits the replacement and continues after the match, *)
(* or emits the character and moves one position on.  The text a call      *)
(* inserts is not scanned again by the same call, only by the later ones.  *)

\* a JavaScript string value with its characters
StringValue(s) == [t |-> "string", n |-> 0, d |-> 1, s |-> s]

\* \s (of the characters the inputs are built from)
IsWhitespace(c) == c \in {" ", "\n"}

\* \d
IsDigit(c) == c \in {"0", "1", "2", "3", "4", "5", "6", "7", "8", "9"}

\* the literal lit stands in s at position i
StartsWith(s, i, lit) ==
    /\ i + Len(lit) - 1 <= Len(s)
    /\ SubSeq(s, i, i + Len(lit) - 1) = lit

\* ^ under flag m: the start of the input or the position after a newline
AtLineStart(s, i) == i = 1 \/ s[i - 1] = "\n"

\* (.*$) under flag m from position i: the position of the next newline, or
\* the position after the last character
RECURSIVE LineEnd(_, _)
LineEnd(s, i) ==
    IF i > Len(s) \/ s[i] = "\n" THEN i ELSE LineEnd(s, i + 1)

\* \s* from position i: the position of the first non-whitespace character
RECURSIVE SkipWhitespace(_, _)
SkipWhitespace(s, i) ==
    IF i <= Len(s) /\ IsWhitespace(s[i]) THEN SkipWhitespace(s, i + 1) ELSE i

\* \d* from position i
RECURSIVE SkipDigits(_, _)
SkipDigits(s, i) ==
    IF i <= Len(s) /\ IsDigit(s[i]) THEN SkipDigits(s, i + 1) ELSE i

\* the position of the first character c at or after position i, 0 if none
RECURSIVE IndexOf(_, _, _)
IndexOf(s, i, c) ==
    IF i > Len(s) THEN 0
    ELSE IF s[i] = c THEN i
    ELSE IndexOf(s, i + 1, c)

\* String.prototype.includes
RECURSIVE IncludesFrom(_, _, _)
IncludesFrom(s, i, lit) ==
    IF i + Len(lit) - 1 > Len(s) THEN FALSE
    ELSE IF StartsWith(s, i, lit) THEN TRUE
    ELSE IncludesFrom(s, i + 1, lit)

Includes(s, lit) == IncludesFrom(s, 1, lit)

\* .replace(/^prefix(.*$)/gm, open + '$1' + close): the rules of the headers
\* and of the blockquote
RECURSIVE LinePrefixScan(_, _, _, _, _)
LinePrefixScan(s, i, prefix, open, close) ==
    IF i > Len(s) THEN <<>>
    ELSE IF AtLineStart(s, i) /\ StartsWith(s, i, prefix)
         THEN LET from == i + Len(prefix)
                  e == LineEnd(s, from)
              IN  open \o SubSeq(s, from, e - 1) \o close
                  \o LinePrefixScan(s, e, prefix, open, close)
         ELSE <<s[i]>> \o LinePrefixScan(s, i + 1, prefix, open, close)

\* n hashes
Hashes(n) == [k \in 1..n |-> "#"]

HeadingOpen(n) == <<"<", "h">> \o NatToChars(n) \o <<">">>

HeadingClose(n) == <<"<", "/", "h">> \o NatToChars(n) \o <<">">>

\* every header rule looks for one hash and a space, whatever its level: the
\* variant of ReplaceHeader whose levels 2 to 5 never match
ReplaceHeader_AnyLevel(s, n) ==
    LinePrefixScan(s, 1, <<"#", " ">>, HeadingOpen(n), HeadingClose(n))

\* .replace(/^#{n} (.*$)/gm, '<hn>$1</hn>') (lines 642-646)
ReplaceHeader(s, n) ==
    LinePrefixScan(s, 1, Hashes(n) \o <<" ">>, HeadingOpen(n), HeadingClose(n))

\* the closing delimiter of (.*?) followed by delim: the first position at
\* or after j where delim stands with no newline before it, 0 if none
RECURSIVE FindClosing(_, _, _)
FindClosing(s, j, delim) ==
    IF j > Len(s) THEN 0
    ELSE IF StartsWith(s, j, delim) THEN j
    ELSE IF s[j] = "\n" THEN 0
    ELSE FindClosing(s, j + 1, delim)

\* .replace(/delim(.*?)delim/g, open + '$1' + close): bold and italic
RECURSIVE DelimitedScan(_, _, _, _, _)
DelimitedScan(s, i, delim, open, close) ==
    IF i > Len(s) THEN <<>>
    ELSE LET j == IF StartsWith(s, i, delim)
                  THEN FindClosing(s, i + Len(delim), delim)
                  ELSE 0
         IN  IF j > 0
             THEN open \o SubSeq(s, i + Len(delim), j - 1) \o close
                  \o DelimitedScan(s, j + Len(delim), delim, open, close)
             ELSE <<s[i]>> \o DelimitedScan(s, i + 1, delim, open, close)

StrongOpen == <<"<", "s", "t", "r", "o", "n", "g", ">">>

StrongClose == <<"<", "/", "s", "t", "r", "o", "n", "g", ">">>

EmOpen == <<"<", "e", "m", ">">>

EmClose == <<"<", "/", "e", "m", ">">>

\* .replace(/\*\*(.*?)\*\*/g, '<strong>$1</strong>') (line 650)
ReplaceStarBold(s) == DelimitedScan(s, 1, <<"*", "*">>, StrongOpen, StrongClose)

\* .replace(/\*(.*?)\*/g, '<em>$1</em>') (line 651)
ReplaceStarItalic(s) == DelimitedScan(s, 1, <<"*">>, EmOpen, EmClose)

\* .replace(/__(.*?)__/g, '<strong>$1</strong>') (line 652)
ReplaceUnderscoreBold(s) == DelimitedScan(s, 1, <<"_", "_">>, StrongOpen, StrongClose)

\* .replace(/_(.*?)_/g, '<em>$1</em>') (line 653)
ReplaceUnderscoreItalic(s) == DelimitedScan(s, 1, <<"_">>, EmOpen, EmClose)

LiOpen == <<"<", "l", "i", ">">>

LiClose == <<"<", "/", "l", "i", ">">>

\* the position after the marker \d+\. standing at position w, 0 if none
OrderedMarkerEnd(s, w) ==
    LET e == SkipDigits(s, w)
    IN  IF e > w /\ e <= Len(s) /\ s[e] = "." THEN e + 1 ELSE 0

\* the position after the marker [\-\*] standing at position w, 0 if none
BulletMarkerEnd(s, w) ==
    IF w <= Len(s) /\ s[w] \in {"-", "*"} THEN w + 1 ELSE 0

\* the first character of the item text of ^\s*marker\s+(.*$) tried at
\* position i, 0 if the pattern fails there: \s matches newlines too, so the
\* whitespace before and after the marker may span lines
ItemTextStart(s, i, ordered) ==
    IF ~AtLineStart(s, i) THEN 0
    ELSE LET w == SkipWhitespace(s, i)
             m == IF ordered THEN OrderedMarkerEnd(s, w) ELSE BulletMarkerEnd(s, w)
         IN  IF m = 0 THEN 0
             ELSE LET c == SkipWhitespace(s, m)
                  IN  IF c > m THEN c ELSE 0

\* .replace(/^\s*marker\s+(.*$)/gm, '<li>$1</li>')
RECURSIVE ItemScan(_, _, _)
ItemScan(s, i, ordered) ==
    IF i > Len(s) THEN <<>>
    ELSE LET c == ItemTextStart(s, i, ordered)
         IN  IF c > 0
             THEN LET e == LineEnd(s, c)
                  IN  LiOpen \o SubSeq(s, c, e - 1) \o LiClose \o ItemScan(s, e, ordered)
             ELSE <<s[i]>> \o ItemScan(s, i + 1, ordered)

\* .replace(/^\s*\d+\.\s+(.*$)/gm, '<li>$1</li>') (line 656)
ReplaceOrderedItem(s) == ItemScan(s, 1, TRUE)

\* .replace(/^\s*[\-\*]\s+(.*$)/gm, '<li>$1</li>') (line 657)
ReplaceBulletItem(s) == ItemScan(s, 1, FALSE)

AnchorHref == <<"<", "a", " ", "h", "r", "e", "f", "=", "\"">>

AnchorTarget == <<"\"", " ", "t", "a", "r", "g", "e", "t", "=", "\"", "_", "b", "l", "a", "n", "k", "\"", ">">>

AnchorClose == <<"<", "/", "a", ">">>

\* the positions <<close bracket, close parenthesis>> of
\* \[([^\]]+)\]\(([^)]+)\) tried at position i, <<0, 0>> if the pattern
\* fails there; [^\]] and [^)] match newlines
LinkMatch(s, i) ==
    IF s[i] # "[" THEN <<0, 0>>
    ELSE LET j == IndexOf(s, i + 1, "]")
         IN  IF j <= i + 1 \/ j + 1 > Len(s) \/ s[j + 1] # "(" THEN <<0, 0>>
             ELSE LET k == IndexOf(s, j + 2, ")")
                  IN  IF k <= j + 2 THEN <<0, 0>> ELSE <<j, k>>

RECURSIVE LinkScan(_, _)
LinkScan(s, i) ==
    IF i > Len(s) THEN <<>>
    ELSE LET m == LinkMatch(s, i)
         IN  IF m[1] > 0
             THEN AnchorHref \o SubSeq(s, m[1] + 2, m[2] - 1) \o AnchorTarget
                  \o SubSeq(s, i + 1, m[1] - 1) \o AnchorClose
                  \o LinkScan(s, m[2] + 1)
             ELSE <<s[i]>> \o LinkScan(s, i + 1)

\* .replace(/\[([^\]]+)\]\(([^)]+)\)/g, '<a href="$2" target="_blank">$1</a>')
\* (line 660)
ReplaceLink(s) == LinkScan(s, 1)

\* the character U+0060 (backtick), written as a name because a TLA+ string
\* cannot hold it
Backtick == "backtick"

CodeOpen == <<"<", "c", "o", "d", "e", ">">>

CodeClose == <<"<", "/", "c", "o", "d", "e", ">">>

\* the inline code rule of line 663: a backtick, one or more characters
\* other than a backtick (newlines too), a backtick; replaced by
\* <code>$1</code>
RECURSIVE CodeScan(_, _)
CodeScan(s, i) ==
    IF i > Len(s) THEN <<>>
    ELSE LET j == IF s[i] = Backtick THEN IndexOf(s, i + 1, Backtick) ELSE 0
         IN  IF j > i + 1
             THEN CodeOpen \o SubSeq(s, i + 1, j - 1) \o CodeClose \o CodeScan(s, j + 1)
             ELSE <<s[i]>> \o CodeScan(s, i + 1)

ReplaceCode(s) == CodeScan(s, 1)

BlockquoteOpen == <<"<", "b", "l", "o", "c", "k", "q", "u", "o", "t", "e", ">">>

BlockquoteClose == <<"<", "/", "b", "l", "o", "c", "k", "q", "u", "o", "t", "e", ">">>

\* .replace(/^\> (.*$)/gm, '<blockquote>$1</blockquote>') (line 666)
ReplaceBlockquote(s) ==
    LinePrefixScan(s, 1, <<">", " ">>, BlockquoteOpen, BlockquoteClose)

ParagraphBreak == <<"<", "/", "p", ">", "<", "p", ">">>

LineBreak == <<"<", "b", "r", ">">>

\* the last newline of the whitespace run that starts at position i, 0 if
\* the run holds none
RECURSIVE LastNewline(_, _, _)
LastNewline(s, i, last) ==
    IF i > Len(s) \/ ~IsWhitespace(s[i]) THEN last
    ELSE LastNewline(s, i + 1, IF s[i] = "\n" THEN i ELSE last)

\* .replace(/\n\s*\n/g, '</p><p>') (line 669): \s* is greedy, the match
\* runs from a newline to the last newline of the whitespace after it
RECURSIVE ParagraphScan(_, _)
ParagraphScan(s, i) ==
    IF i > Len(s) THEN <<>>
    ELSE LET j == IF s[i] = "\n" THEN LastNewline(s, i + 1, 0) ELSE 0
         IN  IF j > 0
             THEN ParagraphBreak \o ParagraphScan(s, j + 1)
             ELSE <<s[i]>> \o ParagraphScan(s, i + 1)

ReplaceParagraphBreak(s) == ParagraphScan(s, 1)

\* .replace(/\n/g, '<br>') (line 670)
RECURSIVE NewlineScan(_, _)
NewlineScan(s, i) ==
    IF i > Len(s) THEN <<>>
    ELSE (IF s[i] = "\n" THEN LineBreak ELSE <<s[i]>>) \o NewlineScan(s, i + 1)

ReplaceNewline(s) == NewlineScan(s, 1)

POpen == <<"<", "p", ">">>

PClose == <<"<", "/", "p", ">">>

UlOpen == <<"<", "u", "l", ">">>

UlClose == <<"<", "/", "u", "l", ">">>

\* html = '<p>' + html + '</p>' (line 673)
WrapParagraph(s) == POpen \o s \o PClose

\* .replace(/<p>(\s*<li>)/g, '<p><ul>$1') (line 678)
RECURSIVE ListOpenScan(_, _)
ListOpenScan(s, i) ==
    IF i > Len(s) THEN <<>>
    ELSE LET w == IF StartsWith(s, i, POpen) THEN SkipWhitespace(s, i + 3) ELSE 0
         IN  IF w > 0 /\ StartsWith(s, w, LiOpen)
             THEN POpen \o UlOpen \o SubSeq(s, i + 3, w + 3) \o ListOpenScan(s, w + 4)
             ELSE <<s[i]>> \o ListOpenScan(s, i + 1)

\* .replace(/(<\/li>\s*)<\/p>/g, '$1</ul></p>') (line 679)
RECURSIVE ListCloseScan(_, _)
ListCloseScan(s, i) ==
    IF i > Len(s) THEN <<>>
    ELSE LET w == IF StartsWith(s, i, LiClose) THEN SkipWhitespace(s, i + 5) ELSE 0
         IN  IF w > 0 /\ StartsWith(s, w, PClose)
             THEN SubSeq(s, i, w - 1) \o UlClose \o PClose \o ListCloseScan(s, w + 4)
             ELSE <<s[i]>> \o ListCloseScan(s, i + 1)

\* the list fix of lines 676-680
WrapLists(s) ==
    IF Includes(s, LiOpen) THEN ListCloseScan(ListOpenScan(s, 1), 1) ELSE s

----------------------------------------------------------------------------
(* formatMarkdown: the chain of substitutions, one group of rules a step   *)

\* the five header rules in the order of the chain (lines 642-646)
Headers(s) ==
    ReplaceHeader(ReplaceHeader(ReplaceHeader(ReplaceHeader(ReplaceHeader(s, 1), 2), 3), 4), 5)

\* bold and italic (lines 650-653)
Emphasis(s) ==
    ReplaceUnderscoreItalic(ReplaceUnderscoreBold(ReplaceStarItalic(ReplaceStarBold(s))))

\* the list rules (lines 656-657)
Lists(s) == ReplaceBulletItem(ReplaceOrderedItem(s))

\* the guard without the empty string: only null, undefined, NaN and 0 are
\* turned away
Falsy_EmptyStringTruthy(v) ==
    \/ v.t \in {"null", "undefined", "nan"}
    \/ v.t = "num" /\ v.n = 0

\* if (!text): null, undefined and the empty string
Falsy(v) ==
    \/ v.t \in {"null", "undefined", "nan"}
    \/ v.t = "num" /\ v.n = 0
    \/ v.t = "string" /\ v.s = <<>>

----------------------------------------------------------------------------
(* formatMarkdown: the arguments of the calls                              *)

\* longest text of a heading line
MaxTitle == 2

\* longest text built from a letter and the emphasis delimiters
MaxInline == 6

\* most lines of a text built from whole lines
MaxLines == 3

\* longest text of a list item
MaxItem == 2

\* longest url of a link
MaxUrl == 2

\* the strings over the characters chars of length 1..maxLen
StringsOf(chars, maxLen) == UNION {[1..n -> chars] : n \in 1..maxLen}

\* lines joined by newlines
RECURSIVE JoinLines(_)
JoinLines(lines) ==
    IF Len(lines) = 0 THEN <<>>
    ELSE IF Len(lines) = 1 THEN lines[1]
    ELSE lines[1] \o <<"\n">> \o JoinLines(Tail(lines))

\* heading lines of one to six hashes (the chain has rules for five levels)
HeadingTexts ==
    {Hashes(n) \o <<" ">> \o t : n \in 1..6, t \in StringsOf({"a", " "}, MaxTitle)}

\* a letter and the delimiters of bold and italic
InlineTexts == StringsOf({"a", "*", "_"}, MaxInline)

\* the lines the multi-line texts are built from: an empty line, a line of
\* one space, a text line and list item lines
LineSet == {<<>>, <<" ">>, <<"a">>, <<"-", " ", "b">>, <<"*", " ", "b">>,
            <<"1", ".", " ", "c">>}

LineTexts == {JoinLines(ls) : ls \in UNION {[1..n -> LineSet] : n \in 1..MaxLines}}

\* the markers of list items
ItemMarkers == {<<"-">>, <<"*">>, <<"1", ".">>, <<" ", "-">>}

\* one list item line whose text holds emphasis delimiters
ItemTexts ==
    {m \o <<" ">> \o x : m \in ItemMarkers, x \in StringsOf({"a", "*", "_"}, MaxItem)}

\* a link, alone or followed by one more character
LinkTexts ==
    {<<"[", "t", "]", "(">> \o u \o <<")">> \o rest :
        u \in StringsOf({"u", "_", "*", Backtick, "\n"}, MaxUrl),
        rest \in {<<>>, <<"_">>, <<Backtick>>}}

\* inline code and a blockquote line
OtherTexts == {<<Backtick, "c", Backtick>>, <<">", " ", "q">>,
               <<">", " ", "q", "\n", "a">>}

\* texts that mix the rules: emphasis of both delimiters, list items and a
\* url with delimiters, a list after a text line
MixedTexts == {<<"*", "*", "a", "_", "b", "*", "*", " ", "_", "c", "_">>,
               <<"*", " ", "a", " ", "*", "b", "*">>,
               <<"-", " ", "a", "_", "b", "_", "c">>,
               <<"[", "t", "]", "(", "a", "_", "b", "_", "c", ")">>,
               <<"t", "e", "x", "t", "\n", "-", " ", "i", "t", "e", "m">>}

MarkdownTexts ==
    HeadingTexts \cup InlineTexts \cup LineTexts \cup ItemTexts \cup LinkTexts
    \cup OtherTexts \cup MixedTexts

\* the values a caller can pass: report.report of the analysis report is
\* whatever JSON the server sent
MarkdownInputs ==
    {null, undefined, Num(0), Num(42), StringValue(<<>>)}
    \cup {StringValue(s) : s \in MarkdownTexts}

----------------------------------------------------------------------------
(* A call of formatMarkdown *)

InitMarkdown ==
    /\ mdpc = "start"
    /\ text \in MarkdownInputs
    /\ html = <<>>
    /\ pc = "idle"
    /\ RenderIdle
    /\ RangeIdle
    /\ dashpc = "idle"
    /\ DashboardIdle
    /\ ReactIdle

MarkdownStep(from, to, result) ==
    /\ mdpc = from
    /\ html' = result
    /\ mdpc' = to
    /\ UNCHANGED <<text, renderVars, rangeVars, dashboardVars, reactVars>>

\* if (!text) return ''; a truthy value that is no string has no method
\* replace: the call throws a TypeError
EnterFormatMarkdown ==
    /\ mdpc = "start"
    /\ IF Falsy(text)
       THEN mdpc' = "done" /\ html' = <<>>
       ELSE IF text.t # "string"
       THEN mdpc' = "thrown" /\ html' = <<>>
       ELSE mdpc' = "headers" /\ html' = text.s
    /\ UNCHANGED <<text, renderVars, rangeVars, dashboardVars, reactVars>>

ApplyHeaders == MarkdownStep("headers", "emphasis", Headers(html))

ApplyEmphasis == MarkdownStep("emphasis", "lists", Emphasis(html))

ApplyLists == MarkdownStep("lists", "links", Lists(html))

ApplyLinks == MarkdownStep("links", "code", ReplaceLink(html))

ApplyCode == MarkdownStep("code", "blockquotes", ReplaceCode(html))

ApplyBlockquotes == MarkdownStep("blockquotes", "paragraphs", ReplaceBlockquote(html))

ApplyParagraphBreaks == MarkdownStep("paragraphs", "breaks", ReplaceParagraphBreak(html))

ApplyLineBreaks == MarkdownStep("breaks", "wrap", ReplaceNewline(html))

ApplyWrapParagraph == MarkdownStep("wrap", "listfix", WrapParagraph(html))

ApplyWrapLists == MarkdownStep("listfix", "done", WrapLists(html))

NextMarkdown ==
    \/ EnterFormatMarkdown
    \/ ApplyHeaders
    \/ ApplyEmphasis
    \/ ApplyLists
    \/ ApplyLinks
    \/ ApplyCode
    \/ ApplyBlockquotes
    \/ ApplyParagraphBreaks
    \/ ApplyLineBreaks
    \/ ApplyWrapParagraph
    \/ ApplyWrapLists

SpecMarkdown == InitMarkdown /\ [][NextMarkdown]_vars

----------------------------------------------------------------------------
(* Vocabulary of the formatMarkdown properties *)

\* the call has returned; html is the value returned
Returned == mdpc = "done"

\* the argument was a string of at least one character
NonEmptyText == text.t = "string" /\ text.s # <<>>

\* the characters the rules of the chain react to, and the two of markup
MarkdownDelimiters ==
    {"#", "*", "_", "-", ".", "[", "]", "(", ")", Backtick, ">", "<", "\n"}

\* s holds none of the delimiters
PlainText(s) == \A i \in 1..Len(s) : s[i] \notin MarkdownDelimiters

----------------------------------------------------------------------------
(* C11 *)

\* C11: formatMarkdown returns the empty string for null, for undefined and
\* for the empty string, and a non-empty string for every non-empty string.
C11_EmptyIffNoText ==
    Returned =>
        /\ (text \in {null, undefined, StringValue(<<>>)} => html = <<>>)
        /\ (NonEmptyText => html # <<>>)

C11_Witness ==
    /\ Returned
    /\ text = null
    /\ html = <<>>

C11_WitnessEmptyString ==
    /\ Returned
    /\ text = StringValue(<<>>)
    /\ html = <<>>

C11_WitnessText ==
    /\ Returned
    /\ text = StringValue(<<"a">>)
    /\ html = <<"<", "p", ">", "a", "<", "/", "p", ">">>

----------------------------------------------------------------------------
(* C12 *)

\* C12: a single-line input of n hashes (1 <= n <= 5), one space and a text T
\* without Markdown delimiters is returned as <p><hn>T</hn></p>.
C12_Heading ==
    (Returned /\ NonEmptyText) =>
        \A n \in 1..5 :
            LET prefix == Hashes(n) \o <<" ">>
                T == SubSeq(text.s, n + 2, Len(text.s))
            IN  (StartsWith(text.s, 1, prefix) /\ T # <<>> /\ PlainText(T)) =>
                    html = POpen \o HeadingOpen(n) \o T \o HeadingClose(n) \o PClose

C12_Witness ==
    /\ Returned
    /\ text = StringValue(<<"#", "#", "#", "#", "#", " ", "a", " ">>)
    /\ html = POpen \o <<"<", "h", "5", ">", "a", " ", "<", "/", "h", "5", ">">> \o PClose

C12_WitnessLevelOne ==
    /\ Returned
    /\ text = StringValue(<<"#", " ", "a">>)
    /\ html = POpen \o <<"<", "h", "1", ">", "a", "<", "/", "h", "1", ">">> \o PClose

----------------------------------------------------------------------------
(* C13 *)

\* the positions of s
Positions(s) == 1..Len(s)

\* s[i..j] holds neither the character d nor a newline
FreeOf(s, i, j, d) == \A k \in i..j : s[k] \notin {d, "\n"}

\* the character d does not stand at position i of s
NotAt(s, i, d) == i < 1 \/ i > Len(s) \/ s[i] # d

\* a span ddxdd stands at i, its closing delimiter at j: x = s[i+2..j-1] is
\* not empty and free of d, and no further d touches the span
BoldSpan(s, i, j, d) ==
    /\ j >= i + 3 /\ j + 1 <= Len(s)
    /\ s[i] = d /\ s[i + 1] = d /\ s[j] = d /\ s[j + 1] = d
    /\ FreeOf(s, i + 2, j - 1, d)
    /\ NotAt(s, i - 1, d) /\ NotAt(s, j + 2, d)

\* a span dxd stands at i, its closing delimiter at j
ItalicSpan(s, i, j, d) ==
    /\ j >= i + 2 /\ j <= Len(s)
    /\ s[i] = d /\ s[j] = d
    /\ FreeOf(s, i + 1, j - 1, d)
    /\ NotAt(s, i - 1, d) /\ NotAt(s, j + 1, d)

\* C13: every span **x** or __x__ of the input (x not empty and free of the
\* delimiter character) stands in the output as <strong>x</strong>, and every
\* span *x* or _x_ as <em>x</em>.
C13_SpansRendered ==
    (Returned /\ NonEmptyText) =>
        \A d \in {"*", "_"} : \A i, j \in Positions(text.s) :
            /\ BoldSpan(text.s, i, j, d) =>
                   Includes(html, StrongOpen \o SubSeq(text.s, i + 2, j - 1) \o StrongClose)
            /\ ItalicSpan(text.s, i, j, d) =>
                   Includes(html, EmOpen \o SubSeq(text.s, i + 1, j - 1) \o EmClose)

----------------------------------------------------------------------------
(* C14 *)

\* the line of s that starts at position i
LineAt(s, i) == SubSeq(s, i, LineEnd(s, i) - 1)

\* the item text x of a line: optional whitespace, a list marker, whitespace
\* and x; the empty string if the line is no list item line
ItemTextOf(line) ==
    LET w == SkipWhitespace(line, 1)
        m == IF OrderedMarkerEnd(line, w) > 0 THEN OrderedMarkerEnd(line, w)
             ELSE BulletMarkerEnd(line, w)
        c == SkipWhitespace(line, m)
    IN  IF m > 0 /\ c > m THEN SubSeq(line, c, Len(line)) ELSE <<>>

\* C14: every line of the input that starts with a list marker (digits and a
\* dot, or one - or *, after optional whitespace) followed by whitespace and a
\* text x stands in the output as <li>x</li>, whatever characters x holds.
C14_ItemsRendered ==
    (Returned /\ NonEmptyText) =>
        \A i \in Positions(text.s) :
            (AtLineStart(text.s, i) /\ ItemTextOf(LineAt(text.s, i)) # <<>>) =>
                Includes(html, LiOpen \o ItemTextOf(LineAt(text.s, i)) \o LiClose)

----------------------------------------------------------------------------
(* C15 *)

\* C15: every link [text](url) of the input stands in the output as
\* <a href="url" target="_blank">text</a>, text and url character for
\* character.
C15_LinksRendered ==
    (Returned /\ NonEmptyText) =>
        \A i \in Positions(text.s) :
            LET m == LinkMatch(text.s, i)
            IN  m[1] > 0 =>
                    Includes(html, AnchorHref \o SubSeq(text.s, m[1] + 2, m[2] - 1)
                                   \o AnchorTarget \o SubSeq(text.s, i + 1, m[1] - 1)
                                   \o AnchorClose)

----------------------------------------------------------------------------
(* C16 *)

\* the tags of s in their order: each runs from a < to the next >
RECURSIVE TagsFrom(_, _)
TagsFrom(s, i) ==
    IF i > Len(s) THEN <<>>
    ELSE IF s[i] # "<" THEN TagsFrom(s, i + 1)
    ELSE LET e == IndexOf(s, i + 1, ">")
         IN  IF e = 0 THEN <<SubSeq(s, i, Len(s))>>
             ELSE <<SubSeq(s, i, e)>> \o TagsFrom(s, e + 1)

Tags(s) == TagsFrom(s, 1)

\* a can be read off b from left to right, skipping elements of b
RECURSIVE IsSubsequence(_, _)
IsSubsequence(a, b) ==
    IF a = <<>> THEN TRUE
    ELSE IF b = <<>> THEN FALSE
    ELSE IF a[1] = b[1] THEN IsSubsequence(Tail(a), Tail(b))
    ELSE IsSubsequence(a, Tail(b))

\* C16: no step of the chain alters a tag an earlier step inserted: the tags
\* of html before a step stand, unchanged and in their order, among the tags
\* of html after it.
C16_MarkupPreserved == [][IsSubsequence(Tags(html), Tags(html'))]_vars

----------------------------------------------------------------------------
(* C17 *)

\* the number of places where lit stands in s
CountOf(s, lit) == Cardinality({i \in Positions(s) : StartsWith(s, i, lit)})

\* the number of newlines in the whitespace run of s that starts at i
NewlinesOfRun(s, i) ==
    Cardinality({k \in i..(SkipWhitespace(s, i) - 1) : s[k] = "\n"})

\* the positions where a maximal run of whitespace starts
RunStarts(s) ==
    {i \in Positions(s) : IsWhitespace(s[i]) /\ (i = 1 \/ ~IsWhitespace(s[i - 1]))}

\* the runs that hold a blank line: two newlines or more
BlankRuns(s) == {i \in RunStarts(s) : NewlinesOfRun(s, i) >= 2}

\* the runs that hold one newline
SingleNewlines(s) == {i \in RunStarts(s) : NewlinesOfRun(s, i) = 1}

\* C17: every blank line of the input (a newline, optional whitespace, a
\* newline) becomes exactly one paragraph boundary </p><p>, every other
\* newline becomes <br>, and the output holds no newline.
C17_BlankLines ==
    (Returned /\ NonEmptyText) =>
        /\ CountOf(html, ParagraphBreak) = Cardinality(BlankRuns(text.s))
        /\ CountOf(html, LineBreak) = Cardinality(SingleNewlines(text.s))
        /\ CountOf(html, <<"\n">>) = 0

----------------------------------------------------------------------------
(* C18 *)

\* the first position at or after i where lit stands in s, 0 if none
RECURSIVE Find(_, _, _)
Find(s, i, lit) ==
    IF i + Len(lit) - 1 > Len(s) THEN 0
    ELSE IF StartsWith(s, i, lit) THEN i
    ELSE Find(s, i + 1, lit)

\* C18: every paragraph of the output that holds a <li> has <ul> right after
\* its <p> and </ul> right before its </p>, and the output holds as many <ul>
\* as </ul>.
C18_ListsWrapped ==
    (Returned /\ NonEmptyText) =>
        /\ CountOf(html, UlOpen) = CountOf(html, UlClose)
        /\ \A i \in Positions(html) :
               LET e == Find(html, i + 3, PClose)
               IN  (/\ StartsWith(html, i, POpen)
                    /\ e > 0
                    /\ Includes(SubSeq(html, i, e - 1), LiOpen)) =>
                       /\ StartsWith(html, i + 3, UlOpen)
                       /\ StartsWith(html, e - 5, UlClose)

----------------------------------------------------------------------------
(* The dashboard page: DOMContentLoaded, the change handlers and the loads  *)
(*                                                                         *)
(* Every handler and every continuation after an await runs to its next    *)
(* await without interruption, so each is one action.  A load awaits its   *)
(* fetch and then response.json(); it reads no global and writes nothing   *)
(* between the two, so the two awaits are one settlement of the request.   *)

\* most calls of loadDashboardData that get past the empty-selection guard
MaxRuns == 2

\* the assets /api/available-assets answers with
Assets == {"AAPL"}

\* the options of the time-horizon select
Horizons == {"6mo", "1y"}

\* the elements the script looks up by id
ElementIds == {"symbol-selector", "time-horizon", "analysis-report",
               "chart-container", "loading-spinner", "visualization-container",
               "alert-container", "feedback-form", "feedback-content"}

\* the pages the script runs on: every element present, or one missing
Pages == {ElementIds} \cup {ElementIds \ {e} : e \in ElementIds}

\* the awaited loads of loadDashboardData in the order of lines 134-154
LoadOrder == <<"market", "predictions", "report", "visualizations">>

\* how a request settles: a response that renders, a response with an empty
\* list, a response whose rendering throws, a non-OK status, a rejection of
\* fetch or of response.json()
Outcomes == {"ok", "empty", "malformed", "status", "rejected"}

\* the request itself failed
Failed(outcome) == outcome \in {"status", "rejected"}

Request(run, load, symbols, horizon) ==
    [run |-> run, load |-> load, symbols |-> symbols, horizon |-> horizon]

\* a call of loadDashboardData past its guard: the load it awaits and the
\* loads it has started
Run(awaits, started) == [awaits |-> awaits, started |-> started]

\* the request of loadAvailableAssets (line 54)
AssetsRequest == Request(0, "assets", {}, "")

\* showLoading (lines 571-575)
showLoading(spinner, show) ==
    IF spinner = "null" THEN "null"
    ELSE IF show THEN "flex" ELSE "none"

\* showErrorMessage and showSuccessMessage (lines 578-615): the message is
\* appended if the alert container exists
showMessage(container, shown, message) ==
    IF container = "null" THEN shown ELSE shown \cup {message}

\* container.innerHTML = content, guarded by if (container)
Write(container, content) ==
    IF container = NullElement THEN NullElement ELSE content

NoAssetsSelected == Content("noAssets", {}, "")

EmptyElement == Content("empty", {}, "")

\* the load that follows a failed load is skipped: the variant of NextLoad
\* without the .catch of lines 134-154
NextLoad_AbortOnFailure(load, outcome) ==
    IF outcome \in {"malformed", "status", "rejected"} \/ load = "visualizations"
    THEN "done"
    ELSE IF load = "market" THEN "predictions"
    ELSE IF load = "predictions" THEN "report"
    ELSE "visualizations"

\* what a run does after the load it awaited has settled: every load is
\* awaited behind its own .catch, so the next one follows whatever the outcome
NextLoad(load, outcome) ==
    IF load = "market" THEN "predictions"
    ELSE IF load = "predictions" THEN "report"
    ELSE IF load = "report" THEN "visualizations"
    ELSE "done"

\* the outcomes a load distinguishes: only the predictions and the
\* visualizations treat an empty list apart (lines 365, 339)
OutcomesOf(load) ==
    IF load \in {"predictions", "visualizations"} THEN Outcomes
    ELSE Outcomes \ {"empty"}

\* new Chart(ctx, ...) of the prediction of one symbol (line 394)
Chart(run, symbol) == [run |-> run, symbol |-> symbol]

\* the charts renderPredictionCharts pushes for the response of request q
\* (line 460): one per prediction; a rendering that throws has pushed the
\* charts of the predictions it got to
PushedCharts(q, outcome) ==
    IF q.load # "predictions" \/ chartContainer = NullElement THEN {{}}
    ELSE IF outcome = "ok" THEN {{Chart(q.run, a) : a \in q.symbols}}
    ELSE IF outcome = "malformed"
         THEN {{Chart(q.run, a) : a \in some} : some \in SUBSET q.symbols}
    ELSE {{}}

\* the element the load of request q renders into
ContainerOf(q) ==
    IF q.load \in {"report", "feedback"} THEN analysisReportContainer
    ELSE IF q.load = "visualizations" THEN visualizationContainer
    ELSE chartContainer

\* the load throws inside its try block: the request failed, or the
\* rendering of the response throws; no load renders without its container
\* (lines 176, 302, 336, 360)
Throws(q, outcome) ==
    \/ Failed(outcome)
    \/ outcome = "malformed" /\ ContainerOf(q) # NullElement

\* renderPredictionCharts returns on an empty list before it clears the
\* container: the variant of ChartAfter in which the notice of lines 366-372
\* is not written
ChartAfter_EmptyListKeepsCards(q, outcome) ==
    IF q.load = "market"
    THEN Write(chartContainer,
               IF Throws(q, outcome) THEN Content("marketNotice", {}, "")
               ELSE Content("marketData", q.symbols, q.horizon))
    ELSE IF q.load = "predictions" /\ outcome # "empty"
    THEN Write(chartContainer,
               IF Throws(q, outcome) THEN Content("predictionsError", {}, "")
               ELSE IF q.symbols = {} THEN Content("noPredictions", {}, "")
               ELSE Content("charts", q.symbols, q.horizon))
    ELSE chartContainer

\* the chart container after the load of request q has settled: the cards of
\* loadMarketData or the notice of its catch block (lines 176-252); the
\* charts or the notice of renderPredictionCharts, or the alert of the catch
\* block of loadPredictions (lines 273-285, 363-374); the other loads do not
\* write to it
ChartAfter(q, outcome) ==
    IF q.load = "market"
    THEN Write(chartContainer,
               IF Throws(q, outcome) THEN Content("marketNotice", {}, "")
               ELSE Content("marketData", q.symbols, q.horizon))
    ELSE IF q.load = "predictions"
    THEN Write(chartContainer,
               IF Throws(q, outcome) THEN Content("predictionsError", {}, "")
               ELSE IF outcome = "empty" \/ q.symbols = {}
                    THEN Content("noPredictions", {}, "")
               ELSE Content("charts", q.symbols, q.horizon))
    ELSE chartContainer

\* predictions = await response.json() (line 268)
PredictionsAfter(q, outcome) ==
    IF q.load # "predictions" \/ Failed(outcome) THEN predictions
    ELSE IF outcome = "empty" THEN NoPredictions
    ELSE Content("array", q.symbols, q.horizon)

\* the analysis report container after the load of request q has settled
\* (lines 302-317)
ReportAfter(q, outcome) ==
    IF q.load = "report" /\ ~Throws(q, outcome)
    THEN Write(analysisReportContainer, Content("report", q.symbols, q.horizon))
    ELSE analysisReportContainer

\* the visualization container after the load of request q has settled
\* (lines 336-351): cleared first, then the frames or the notice
VisualizationAfter(q, outcome) ==
    IF q.load # "visualizations" \/ Failed(outcome)
    THEN visualizationContainer
    ELSE Write(visualizationContainer,
               IF outcome = "malformed" THEN EmptyElement
               ELSE IF outcome = "empty" THEN Content("noVisualizations", {}, "")
               ELSE Content("frames", q.symbols, q.horizon))

\* the messages of the .catch handlers of lines 134-154: loadMarketData and
\* loadAnalysisReport rethrow, loadPredictions and loadVisualizations do not
AlertsAfter(q, outcome) ==
    IF Throws(q, outcome) /\ q.load = "market"
    THEN showMessage(alertContainer, alerts, "Failed to load market data")
    ELSE IF Throws(q, outcome) /\ q.load = "report"
    THEN showMessage(alertContainer, alerts, "Failed to load analysis report")
    ELSE alerts

\* loadDashboardData without the guard of lines 112-125: an empty selection
\* is loaded like any other
loadDashboardData_NoGuard(symbols, horizon, spinner, chart, report, viz, unsettled) ==
    /\ Len(runs) < MaxRuns
    /\ loadingSpinner' = showLoading(spinner, TRUE)
    /\ chartInstances' = {}
    /\ chartContainer' = Write(chart, EmptyElement)
    /\ analysisReportContainer' = report
    /\ visualizationContainer' = viz
    /\ runs' = Append(runs, Run("market", <<"market">>))
    /\ pending' = unsettled \cup {Request(Len(runs) + 1, "market", symbols, horizon)}

\* loadDashboardData up to its first await (lines 110-134), called with the
\* globals symbols and horizon: the notice in every container if nothing is
\* selected; otherwise the spinner, clearCharts and the fetch of
\* loadMarketData.  The elements and the pending fetches are passed as the
\* caller left them
loadDashboardData(symbols, horizon, spinner, chart, report, viz, unsettled) ==
    IF symbols = {}
    THEN /\ chartContainer' = Write(chart, NoAssetsSelected)
         /\ analysisReportContainer' = Write(report, NoAssetsSelected)
         /\ visualizationContainer' = Write(viz, NoAssetsSelected)
         /\ loadingSpinner' = spinner
         /\ pending' = unsettled
         /\ UNCHANGED <<chartInstances, runs>>
    ELSE /\ Len(runs) < MaxRuns
         /\ loadingSpinner' = showLoading(spinner, TRUE)
         /\ chartInstances' = {}
         /\ chartContainer' = Write(chart, EmptyElement)
         /\ analysisReportContainer' = report
         /\ visualizationContainer' = viz
         /\ runs' = Append(runs, Run("market", <<"market">>))
         /\ pending' = unsettled \cup {Request(Len(runs) + 1, "market", symbols, horizon)}

\* this step starts the loads of a call of loadDashboardData while an earlier
\* call is awaiting one of its own
Overlaps ==
    /\ Len(runs') > Len(runs)
    /\ \E r \in 1..Len(runs) : runs[r].awaits # "done"

\* document.getElementById(id) on the page
Lookup(page, id) == IF id \in page THEN "element" ELSE "null"

InitDashboard ==
    /\ dashpc = "loading"
    /\ DashboardIdle
    /\ ReactIdle
    /\ pc = "idle"
    /\ RenderIdle
    /\ RangeIdle
    /\ MarkdownIdle

\* the DOMContentLoaded handler (lines 20-48): the element lookups, then
\* loadAvailableAssets up to its fetch (lines 51-54), then loadDashboardData
DOMContentLoaded ==
    /\ dashpc = "loading"
    /\ dashpc' = "ready"
    /\ \E page \in Pages :
        /\ symbolSelector' = Lookup(page, "symbol-selector")
        /\ timeHorizonSelector' = Lookup(page, "time-horizon")
        /\ alertContainer' = Lookup(page, "alert-container")
        /\ feedbackForm' = Lookup(page, "feedback-form")
        /\ feedbackTextarea' = Lookup(page, "feedback-content")
        /\ LET element(id) == IF id \in page THEN Template ELSE NullElement
               spinner == IF "loading-spinner" \in page THEN "template" ELSE "null"
           IN  loadDashboardData(currentSymbols, currentTimeHorizon,
                                 showLoading(spinner, TRUE),
                                 element("chart-container"),
                                 element("analysis-report"),
                                 element("visualization-container"),
                                 {AssetsRequest})
    /\ UNCHANGED <<alerts, checkboxes, checked, currentSymbols,
                   currentTimeHorizon, predictions, feedbackValue, submits,
                   overlapped>>
    /\ UNCHANGED <<renderVars, rangeVars, markdownVars, reactVars>>

\* the continuation of loadAvailableAssets after its request has settled
\* (lines 56-93): the checkboxes and the reset of the selection, or the
\* message of the catch block; the spinner is hidden in either case
AssetsSettled ==
    /\ dashpc = "ready"
    /\ AssetsRequest \in pending
    /\ pending' = pending \ {AssetsRequest}
    /\ \E outcome \in {"ok", "status", "rejected"} :
        IF outcome = "ok"
        THEN /\ IF symbolSelector = "null"
                THEN UNCHANGED <<checkboxes, checked, currentSymbols>>
                ELSE /\ checkboxes' = Assets
                     /\ checked' = {}
                     /\ currentSymbols' = {}
             /\ alerts' = alerts
        ELSE /\ alerts' = showMessage(alertContainer, alerts,
                                      "Failed to load available assets")
             /\ UNCHANGED <<checkboxes, checked, currentSymbols>>
    /\ loadingSpinner' = showLoading(loadingSpinner, FALSE)
    /\ UNCHANGED <<dashpc, symbolSelector, timeHorizonSelector, alertContainer,
                   analysisReportContainer, chartContainer,
                   visualizationContainer, currentTimeHorizon, predictions,
                   chartInstances, runs, feedbackVars, overlapped>>
    /\ UNCHANGED <<renderVars, rangeVars, markdownVars, reactVars>>

\* a change event of one checkbox: updateSelectedSymbols (lines 97-107)
CheckboxChange ==
    /\ dashpc = "ready"
    /\ \E asset \in checkboxes :
        LET selection == IF asset \in checked THEN checked \ {asset}
                         ELSE checked \cup {asset}
        IN  /\ checked' = selection
            /\ currentSymbols' = selection
            /\ IF selection # {}
               THEN /\ loadDashboardData(selection, currentTimeHorizon,
                                         loadingSpinner, chartContainer,
                                         analysisReportContainer,
                                         visualizationContainer, pending)
                    /\ alerts' = alerts
               ELSE /\ alerts' = showMessage(alertContainer, alerts,
                                             "Please select at least one asset")
                    /\ UNCHANGED <<analysisReportContainer, chartContainer,
                                   visualizationContainer, loadingSpinner,
                                   chartInstances, runs, pending>>
    /\ overlapped' = (overlapped \/ Overlaps)
    /\ UNCHANGED <<dashpc, symbolSelector, timeHorizonSelector, alertContainer,
                   checkboxes, currentTimeHorizon, predictions, feedbackVars>>
    /\ UNCHANGED <<renderVars, rangeVars, markdownVars, reactVars>>

\* a change event of the time-horizon select (lines 33-36)
TimeHorizonChange ==
    /\ dashpc = "ready"
    /\ timeHorizonSelector # "null"
    /\ \E value \in Horizons :
        /\ currentTimeHorizon' = value
        /\ loadDashboardData(currentSymbols, value, loadingSpinner,
                             chartContainer, analysisReportContainer,
                             visualizationContainer, pending)
    /\ overlapped' = (overlapped \/ Overlaps)
    /\ UNCHANGED <<dashpc, symbolSelector, timeHorizonSelector, alertContainer,
                   alerts, checkboxes, checked, currentSymbols, predictions,
                   feedbackVars>>
    /\ UNCHANGED <<renderVars, rangeVars, markdownVars, reactVars>>

\* the request q of a run settles: the rest of its load, the .catch of
\* loadDashboardData, then the next load up to its fetch (which reads the
\* globals as they are now) or, after the last load, the finally block
LoadSettled ==
    /\ dashpc = "ready"
    /\ \E q \in pending : \E outcome \in OutcomesOf(q.load) :
        /\ q.run > 0
        /\ \E pushed \in PushedCharts(q, outcome) :
               chartInstances' = chartInstances \cup pushed
        /\ chartContainer' = ChartAfter(q, outcome)
        /\ predictions' = PredictionsAfter(q, outcome)
        /\ analysisReportContainer' = ReportAfter(q, outcome)
        /\ visualizationContainer' = VisualizationAfter(q, outcome)
        /\ alerts' = AlertsAfter(q, outcome)
        /\ LET next == NextLoad(q.load, outcome)
               follow == Request(q.run, next, currentSymbols, currentTimeHorizon)
           IN  IF next = "done"
               THEN /\ runs' = [runs EXCEPT ![q.run].awaits = "done"]
                    /\ loadingSpinner' = showLoading(loadingSpinner, FALSE)
                    /\ pending' = pending \ {q}
               ELSE /\ runs' = [runs EXCEPT ![q.run] =
                                    Run(next, Append(runs[q.run].started, next))]
                    /\ loadingSpinner' = loadingSpinner
                    /\ pending' = (pending \ {q}) \cup {follow}
    /\ UNCHANGED <<dashpc, symbolSelector, timeHorizonSelector, alertContainer,
                   checkboxes, checked, currentSymbols, currentTimeHorizon,
                   feedbackVars, overlapped>>
    /\ UNCHANGED <<renderVars, rangeVars, markdownVars, reactVars>>

\* most calls of submitAnalystFeedback that get past the empty-text guard
MaxSubmits == 1

\* what the user leaves in the feedback textarea: nothing, blanks, a note
FeedbackTexts == {<<>>, <<" ">>, <<" ", "o", "k", "\n">>}

\* the position of the last non-whitespace character of s up to i, 0 if none
RECURSIVE TrimEnd(_, _)
TrimEnd(s, i) ==
    IF i = 0 \/ ~IsWhitespace(s[i]) THEN i ELSE TrimEnd(s, i - 1)

\* String.prototype.trim (line 497)
Trim(s) == SubSeq(s, SkipWhitespace(s, 1), TrimEnd(s, Len(s)))

\* the POST of the n-th submission (line 507): the body carries the globals
FeedbackRequest(n) == Request(0 - n, "feedback", currentSymbols, currentTimeHorizon)

\* the request of the loadVisualizations call of line 550
ReloadRequest(q) ==
    Request(q.run, "visualizations", currentSymbols, currentTimeHorizon)

\* an input event of the feedback textarea: the user edits the text
FeedbackInput ==
    /\ dashpc = "ready"
    /\ feedbackTextarea = "element"
    /\ \E value \in FeedbackTexts \ {feedbackValue} : feedbackValue' = value
    /\ UNCHANGED <<dashpc, domVars, currentSymbols, currentTimeHorizon,
                   predictions, chartInstances, runs, pending, feedbackForm,
                   feedbackTextarea, submits, overlapped>>
    /\ UNCHANGED <<renderVars, rangeVars, markdownVars, reactVars>>

\* the submit handler finds nothing to send (lines 494-502): the read of
\* feedbackTextarea.value throws without the textarea, and a text that trims
\* to nothing is answered with a message
SubmitNothing ==
    /\ alerts' = IF feedbackTextarea = "null" THEN alerts
                 ELSE showMessage(alertContainer, alerts,
                                  "Please provide feedback content")
    /\ UNCHANGED <<loadingSpinner, pending, submits>>

\* the submit handler up to its fetch (lines 504-517)
SubmitRequest ==
    /\ submits < MaxSubmits
    /\ loadingSpinner' = showLoading(loadingSpinner, TRUE)
    /\ pending' = pending \cup {FeedbackRequest(submits + 1)}
    /\ submits' = submits + 1
    /\ alerts' = alerts

\* a submit event of the feedback form: submitAnalystFeedback up to its
\* return or its first await (lines 494-517)
SubmitFeedback ==
    /\ dashpc = "ready"
    /\ feedbackForm = "element"
    /\ IF feedbackTextarea = "null" \/ Trim(feedbackValue) = <<>>
       THEN SubmitNothing
       ELSE SubmitRequest
    /\ UNCHANGED <<dashpc, symbolSelector, timeHorizonSelector, alertContainer,
                   analysisReportContainer, chartContainer,
                   visualizationContainer, checkboxes, checked, currentSymbols,
                   currentTimeHorizon, predictions, chartInstances, runs,
                   feedbackForm, feedbackTextarea, feedbackValue, overlapped>>
    /\ UNCHANGED <<renderVars, rangeVars, markdownVars, reactVars>>

\* the catch block clears the textarea: the variant of FeedbackSettle whose
\* failure path loses the text the user typed
FeedbackSettle_ClearsOnFailure(q, outcome) ==
    IF Throws(q, outcome)
    THEN /\ alerts' = showMessage(alertContainer, alerts, "Failed to submit feedback")
         /\ loadingSpinner' = showLoading(loadingSpinner, FALSE)
         /\ pending' = pending \ {q}
         /\ feedbackValue' = <<>>
         /\ UNCHANGED analysisReportContainer
    ELSE /\ analysisReportContainer' =
                Write(analysisReportContainer,
                      Content("updatedReport", q.symbols, q.horizon))
         /\ feedbackValue' = <<>>
         /\ alerts' = showMessage(alertContainer, alerts,
                                  "Feedback submitted successfully")
         /\ loadingSpinner' = loadingSpinner
         /\ pending' = (pending \ {q}) \cup {ReloadRequest(q)}

\* the POST q of a submission settles with outcome (lines 519-556): the catch
\* block and the finally block if the request failed or the rendering of the
\* updated report throws; otherwise the updated report, the cleared textarea,
\* the success message and loadVisualizations up to its fetch
FeedbackSettle(q, outcome) ==
    IF Throws(q, outcome)
    THEN /\ alerts' = showMessage(alertContainer, alerts, "Failed to submit feedback")
         /\ loadingSpinner' = showLoading(loadingSpinner, FALSE)
         /\ pending' = pending \ {q}
         /\ UNCHANGED <<analysisReportContainer, feedbackValue>>
    ELSE /\ analysisReportContainer' =
                Write(analysisReportContainer,
                      Content("updatedReport", q.symbols, q.horizon))
         /\ feedbackValue' = <<>>
         /\ alerts' = showMessage(alertContainer, alerts,
                                  "Feedback submitted successfully")
         /\ loadingSpinner' = loadingSpinner
         /\ pending' = (pending \ {q}) \cup {ReloadRequest(q)}

FeedbackSettled ==
    /\ dashpc = "ready"
    /\ \E q \in pending : \E outcome \in OutcomesOf(q.load) :
        /\ q.load = "feedback"
        /\ FeedbackSettle(q, outcome)
    /\ UNCHANGED <<dashpc, symbolSelector, timeHorizonSelector, alertContainer,
                   chartContainer, visualizationContainer, checkboxes, checked,
                   currentSymbols, currentTimeHorizon, predictions,
                   chartInstances, runs, feedbackForm, feedbackTextarea,
                   submits, overlapped>>
    /\ UNCHANGED <<renderVars, rangeVars, markdownVars, reactVars>>

\* the request q of the loadVisualizations call of line 550 settles: the
\* rest of loadVisualizations (lines 330-355), which throws nothing, and the
\* finally block of submitAnalystFeedback
ReloadSettle(q, outcome) ==
    /\ visualizationContainer' = VisualizationAfter(q, outcome)
    /\ loadingSpinner' = showLoading(loadingSpinner, FALSE)
    /\ pending' = pending \ {q}

ReloadSettled ==
    /\ dashpc = "ready"
    /\ \E q \in pending : \E outcome \in OutcomesOf(q.load) :
        /\ q.run < 0
        /\ q.load = "visualizations"
        /\ ReloadSettle(q, outcome)
    /\ UNCHANGED <<dashpc, symbolSelector, timeHorizonSelector, alertContainer,
                   alerts, analysisReportContainer, chartContainer, checkboxes,
                   checked, currentSymbols, currentTimeHorizon, predictions,
                   chartInstances, runs, feedbackVars, overlapped>>
    /\ UNCHANGED <<renderVars, rangeVars, markdownVars, reactVars>>

NextDashboard ==
    \/ DOMContentLoaded
    \/ AssetsSettled
    \/ CheckboxChange
    \/ TimeHorizonChange
    \/ LoadSettled

\* the page of a user who leaves the feedback form alone
SpecDashboard == InitDashboard /\ [][NextDashboard]_vars

\* most calls of loadDashboardData past its guard on the page of a user who
\* submits feedback
MaxFeedbackRuns == 1

\* the change handlers while the page has run loadDashboardData past its
\* guard fewer than MaxFeedbackRuns times
CheckboxChangeBounded == CheckboxChange /\ Len(runs') <= MaxFeedbackRuns

TimeHorizonChangeBounded == TimeHorizonChange /\ Len(runs') <= MaxFeedbackRuns

NextFeedback ==
    \/ DOMContentLoaded
    \/ AssetsSettled
    \/ CheckboxChangeBounded
    \/ TimeHorizonChangeBounded
    \/ LoadSettled
    \/ FeedbackInput
    \/ SubmitFeedback
    \/ FeedbackSettled
    \/ ReloadSettled

\* the page with the feedback form in use
SpecFeedback == InitDashboard /\ [][NextFeedback]_vars

----------------------------------------------------------------------------
(* C19 *)

\* the requests of run r that have not settled
PendingOf(r) == {q \in pending : q.run = r}

\* a is b or the beginning of b
IsPrefix(a, b) == Len(a) <= Len(b) /\ a = SubSeq(b, 1, Len(a))

\* C19: a run of loadDashboardData with a selection starts its four loads in
\* the order market data, predictions, analysis report, visualizations, each
\* after the one before has settled, and a load that fails never keeps the
\* later loads of the run from being started: the loads started are a
\* beginning of that order, the one request of the run that has not settled
\* is the load started last, and a finished run has started all four.
C19_LoadsInOrder ==
    \A r \in 1..Len(runs) :
        /\ IsPrefix(runs[r].started, LoadOrder)
        /\ Cardinality(PendingOf(r)) <= 1
        /\ \A q \in PendingOf(r) :
               q.load = runs[r].started[Len(runs[r].started)] /\ q.load = runs[r].awaits
        /\ runs[r].awaits # "done" => PendingOf(r) # {}
        /\ runs[r].awaits = "done" =>
               runs[r].started = LoadOrder /\ PendingOf(r) = {}

\* one run has finished after its market data, predictions and report loads
\* have failed
C19_Witness ==
    /\ Len(runs) = 1
    /\ runs[1] = Run("done", LoadOrder)
    /\ "Failed to load market data" \in alerts
    /\ "Failed to load analysis report" \in alerts
    /\ chartContainer = Content("predictionsError", {}, "")

\* two runs overlap, each awaiting a load of its own
C19_WitnessOverlap ==
    /\ Len(runs) = 2
    /\ runs[1].awaits = "predictions"
    /\ runs[2].awaits = "market"

----------------------------------------------------------------------------
(* C20 *)

\* every container that exists shows the notice of lines 116-121
ShowsNoAssetsSelected ==
    /\ chartContainer \in {NullElement, NoAssetsSelected}
    /\ analysisReportContainer \in {NullElement, NoAssetsSelected}
    /\ visualizationContainer \in {NullElement, NoAssetsSelected}

\* C20: a call of loadDashboardData while currentSymbols is empty (from the
\* time-horizon handler, or from the DOMContentLoaded handler) issues no
\* request of a load, starts no run, leaves the spinner as it was (as
\* loadAvailableAssets set it, in the DOMContentLoaded handler), leaves
\* chartInstances and predictions unchanged, does not change
\* currentTimeHorizon itself, and puts the No Assets Selected notice into
\* every container that exists.
C20_EmptySelection ==
    [][/\ (TimeHorizonChange /\ currentSymbols = {}) =>
              /\ pending' = pending
              /\ runs' = runs
              /\ loadingSpinner' = loadingSpinner
              /\ chartInstances' = chartInstances
              /\ predictions' = predictions
              /\ ShowsNoAssetsSelected'
       /\ DOMContentLoaded =>
              /\ pending' = {AssetsRequest}
              /\ runs' = runs
              /\ loadingSpinner' \in {"null", "flex"}
              /\ chartInstances' = chartInstances
              /\ predictions' = predictions
              /\ currentTimeHorizon' = currentTimeHorizon
              /\ ShowsNoAssetsSelected']_vars

\* a run has finished and drawn its charts, the selection was emptied, and a
\* later call has put the notice over the charts on a page without the
\* visualization container
C20_Witness ==
    /\ Len(runs) = 1
    /\ runs[1].awaits = "done"
    /\ currentSymbols = {}
    /\ pending = {}
    /\ chartContainer = NoAssetsSelected
    /\ analysisReportContainer = NoAssetsSelected
    /\ visualizationContainer = NullElement
    /\ chartInstances # {}
    /\ loadingSpinner = "none"

\* the page has just been set up: the notice is in every container
C20_WitnessStartup ==
    /\ dashpc = "ready"
    /\ pending = {AssetsRequest}
    /\ chartContainer = NoAssetsSelected
    /\ analysisReportContainer = NoAssetsSelected
    /\ visualizationContainer = NoAssetsSelected
    /\ loadingSpinner = "flex"

----------------------------------------------------------------------------
(* C21 *)

\* C21: whenever the page is set up, currentSymbols is empty and no request
\* is outstanding, every container that exists shows the No Assets Selected
\* notice, not the data of an earlier selection.
C21_NoticeWhenNothingSelected ==
    (dashpc = "ready" /\ currentSymbols = {} /\ pending = {}) =>
        ShowsNoAssetsSelected

----------------------------------------------------------------------------
(* C22 *)

\* loadAvailableAssets, a call of loadDashboardData past its guard or a call
\* of submitAnalystFeedback past its guard has not reached its finally block:
\* each of them awaits exactly one request until then
Busy == pending # {}

\* C22: the spinner is displayed exactly while one of the operations
\* loadAvailableAssets, loadDashboardData, submitAnalystFeedback has started
\* its work and has not finished.
C22_SpinnerWhileBusy ==
    (dashpc = "ready" /\ loadingSpinner # "null") =>
        (loadingSpinner = "flex" <=> Busy)

----------------------------------------------------------------------------
(* C23 *)

\* C23: the request a run of loadDashboardData issues after one of its
\* requests has settled carries the symbols and the time horizon of the
\* settled one, so that all four requests of the run carry the same.
C23_SameParameters ==
    [][\A q \in pending \ pending' : \A f \in pending' \ pending :
           (q.run > 0 /\ f.run = q.run) =>
               (f.symbols = q.symbols /\ f.horizon = q.horizon)]_vars

----------------------------------------------------------------------------
(* C24 *)

\* the element shows nothing built from a response, or what it shows was
\* requested for the current selection and time horizon
ForCurrentSelection(element) ==
    element.kind \in {"charts", "report", "frames"} =>
        (element.symbols = currentSymbols /\ element.horizon = currentTimeHorizon)

\* C24: once runs of loadDashboardData have overlapped and no request is
\* outstanding, the prediction charts, the analysis report and the
\* visualizations on screen are those of the current selection and time
\* horizon (stated for a selection that is not empty).
C24_CurrentAfterOverlap ==
    (overlapped /\ pending = {} /\ currentSymbols # {}) =>
        /\ ForCurrentSelection(chartContainer)
        /\ ForCurrentSelection(analysisReportContainer)
        /\ ForCurrentSelection(visualizationContainer)

----------------------------------------------------------------------------
(* C25 *)

\* the symbols whose canvases are in the chart container: renderPredictionCharts
\* appends one canvas per prediction (lines 377-395), every other write to the
\* container removes them
Canvases == IF chartContainer.kind = "charts" THEN chartContainer.symbols ELSE {}

\* C25: chartInstances holds exactly the charts whose canvases are in the
\* chart container: one chart for every canvas, all drawn by the same call of
\* renderPredictionCharts, and no chart whose canvas has been removed.
C25_ChartsMatchCanvases ==
    /\ {chart.symbol : chart \in chartInstances} = Canvases
    /\ Cardinality(chartInstances) = Cardinality(Canvases)

----------------------------------------------------------------------------
(* C26 *)

\* this step takes run r through the finally block of loadDashboardData
RunCompletes(r) == runs[r].awaits # "done" /\ runs'[r].awaits = "done"

\* what loadPredictions leaves in the chart container (lines 273-285,
\* 363-374, 377-395)
PredictionsContent == {"charts", "noPredictions", "predictionsError"}

----------------------------------------------------------------------------
(* C27 *)

\* the spinner, if the page has one, is hidden
SpinnerHidden == loadingSpinner \in {"null", "none"}

\* the step leaves the report and the text of the textarea alone, shows the
\* message, and sends nothing
Rejected(q, message) ==
    /\ analysisReportContainer' = analysisReportContainer
    /\ feedbackValue' = feedbackValue
    /\ alerts' = showMessage(alertContainer, alerts, message)
    /\ pending' = pending \ {q}

\* the step puts the updated report of request q into the report container,
\* clears the textarea and requests the visualizations
Accepted(q) ==
    /\ analysisReportContainer' =
           Write(analysisReportContainer, Content("updatedReport", q.symbols, q.horizon))
    /\ feedbackValue' = <<>>
    /\ \E reload \in pending' \ pending :
           reload.run = q.run /\ reload.load = "visualizations"
    /\ loadingSpinner' = loadingSpinner

\* C27: a submission whose text trims to nothing sends no request and leaves
\* the report, the textarea and the spinner alone, adding only the error
\* message; a POST that fails or is answered with a non-OK status leaves the
\* report and the textarea alone and shows the error message; the report is
\* replaced, the textarea cleared and the visualizations reloaded only
\* together and only after a POST that did not fail; and the spinner is
\* hidden when a submission that showed it ends: in the catch path and after
\* the reload of the visualizations.
C27_SubmitAnalystFeedback ==
    [][/\ (feedbackTextarea = "element" /\ Trim(feedbackValue) = <<>> /\ SubmitFeedback) =>
              /\ alerts' = showMessage(alertContainer, alerts,
                                       "Please provide feedback content")
              /\ UNCHANGED <<pending, submits, analysisReportContainer,
                             feedbackValue, loadingSpinner>>
       /\ submits' # submits =>
              /\ Trim(feedbackValue) # <<>>
              /\ loadingSpinner' \in {"null", "flex"}
              /\ UNCHANGED <<analysisReportContainer, feedbackValue, alerts>>
       /\ \A q \in pending \ pending' :
              /\ q.load = "feedback" =>
                     /\ \/ Rejected(q, "Failed to submit feedback") /\ SpinnerHidden'
                        \/ Accepted(q)
                     /\ \A outcome \in Outcomes :
                            FeedbackSettle(q, outcome) =>
                                /\ Failed(outcome) =>
                                       /\ Rejected(q, "Failed to submit feedback")
                                       /\ SpinnerHidden'
                                /\ outcome = "ok" => Accepted(q)
              /\ (q.run < 0 /\ q.load = "visualizations") =>
                     /\ SpinnerHidden'
                     /\ UNCHANGED <<analysisReportContainer, feedbackValue, alerts>>]_vars

\* an empty submission was answered with the message, then a submission went
\* through: the updated report, the cleared textarea, the reloaded
\* visualizations, the spinner hidden
C27_Witness ==
    /\ submits = 1
    /\ pending = {}
    /\ "Please provide feedback content" \in alerts
    /\ "Feedback submitted successfully" \in alerts
    /\ analysisReportContainer.kind = "updatedReport"
    /\ visualizationContainer.kind = "frames"
    /\ feedbackValue = <<>>
    /\ loadingSpinner = "none"

\* a submission failed: the message, the report and the text as they were
C27_WitnessFailure ==
    /\ submits = 1
    /\ pending = {}
    /\ "Failed to submit feedback" \in alerts
    /\ analysisReportContainer.kind = "report"
    /\ Trim(feedbackValue) = <<"o", "k">>
    /\ loadingSpinner = "none"

----------------------------------------------------------------------------
(* The React page components Dashboard, DataIngestion, MarketAnalysis and  *)
(* Reports                                                                 *)
(*                                                                         *)
(* The router mounts one page component.  A click handler runs to its      *)
(* first await and React renders the state it has set before the next      *)
(* event is dispatched, so the handler and that render are one action; the *)
(* continuation after the await, with its catch and finally blocks and the *)
(* render that follows, is another.                                        *)

\* most api calls of a component that are in flight together
MaxRequests == 2

\* most entries of recentActivity
MaxActivity == 3

PageComponents == {"Dashboard", "DataIngestion", "MarketAnalysis", "Reports"}

\* the MenuItems of the timeframe select and of the report template select
Timeframes == {"1-week", "1-month", "3-months"}

ReportTemplates == {"pdf", "html"}

\* how an api call settles: the promise resolves with data of the expected
\* shape, resolves with other data, or rejects (axios rejects on a non-2xx
\* status)
Settlements == {"ok", "malformed", "rejected"}

\* an api call in flight: the handler that awaits it and its arguments
Call(handler, arguments) == [handler |-> handler, arguments |-> arguments]

dataVars == <<recentActivity, financialData, stock, timeframe, analysis,
              feedback, reportTemplate, reportState>>

\* no button is ever disabled: the variant of Disabled without the disabled
\* attributes
Disabled_Never(button) == FALSE

\* the disabled attribute of a button as the last render left it:
\* disabled={loading}, and disabled={loading || !feedback} for Submit
\* Feedback
Disabled(button) ==
    IF button = "Submit Feedback" THEN loading \/ feedback = "" ELSE loading

\* setLoading(true); setError(null); and the api call up to its await
StartRequest(call) ==
    /\ Len(requests) < MaxRequests
    /\ loading' = TRUE
    /\ error' = "null"
    /\ requests' = Append(requests, call)

\* the calls in flight without the i-th
Others(i) == SubSeq(requests, 1, i - 1) \o SubSeq(requests, i + 1, Len(requests))

\* the catch block and the finally block: setError(message), setLoading(false)
Fail(i, message) ==
    /\ error' = message
    /\ loading' = FALSE
    /\ requests' = Others(i)
    /\ component' = component

\* the finally block after the try block has completed: setLoading(false)
Finish(i) ==
    /\ error' = error
    /\ loading' = FALSE
    /\ requests' = Others(i)
    /\ component' = component

\* the finally block, then a render that throws on the data it was given:
\* without an error boundary React unmounts the tree
Crash(i) ==
    /\ error' = error
    /\ loading' = FALSE
    /\ requests' = Others(i)
    /\ component' = "crashed"

InitReact ==
    /\ component \in PageComponents
    /\ InitialState
    /\ pc = "idle"
    /\ RenderIdle
    /\ RangeIdle
    /\ MarkdownIdle
    /\ dashpc = "idle"
    /\ DashboardIdle

\* Dashboard.handleFetchData up to its await (Dashboard.tsx lines 10-14)
Dashboard_handleFetchData ==
    /\ component = "Dashboard"
    /\ ~Disabled("Fetch Latest Data")
    /\ StartRequest(Call("handleFetchData", <<>>))
    /\ UNCHANGED <<component, dataVars>>
    /\ UNCHANGED <<renderVars, rangeVars, markdownVars, dashboardVars>>

\* Dashboard.handleFetchData after its await (lines 14-24): data.length
\* throws inside the try block if the response holds no array
Dashboard_handleFetchData_Settled ==
    /\ component = "Dashboard"
    /\ \E i \in 1..Len(requests) : \E outcome \in Settlements :
        /\ requests[i].handler = "handleFetchData"
        /\ IF outcome = "ok"
           THEN /\ recentActivity' = <<"fetched", "analysis">>
                /\ Finish(i)
           ELSE /\ recentActivity' = recentActivity
                /\ Fail(i, "Failed to fetch latest data. Please try again.")
    /\ UNCHANGED <<financialData, stock, timeframe, analysis, feedback,
                   reportTemplate, reportState>>
    /\ UNCHANGED <<renderVars, rangeVars, markdownVars, dashboardVars>>

\* Dashboard.handleGenerateReport up to its await (lines 27-31)
Dashboard_handleGenerateReport ==
    /\ component = "Dashboard"
    /\ ~Disabled("Generate New Report")
    /\ Len(recentActivity) < MaxActivity
    /\ StartRequest(Call("handleGenerateReport", <<"AAPL", "pdf">>))
    /\ UNCHANGED <<component, dataVars>>
    /\ UNCHANGED <<renderVars, rangeVars, markdownVars, dashboardVars>>

\* Dashboard.handleGenerateReport after its await (lines 31-41): the updater
\* of setRecentActivity reads report.title when React renders
Dashboard_handleGenerateReport_Settled ==
    /\ component = "Dashboard"
    /\ \E i \in 1..Len(requests) : \E outcome \in Settlements :
        /\ requests[i].handler = "handleGenerateReport"
        /\ IF outcome = "ok"
           THEN /\ recentActivity' = <<"report">> \o recentActivity
                /\ Finish(i)
           ELSE IF outcome = "malformed"
           THEN /\ recentActivity' = recentActivity
                /\ Crash(i)
           ELSE /\ recentActivity' = recentActivity
                /\ Fail(i, "Failed to generate report. Please try again.")
    /\ UNCHANGED <<financialData, stock, timeframe, analysis, feedback,
                   reportTemplate, reportState>>
    /\ UNCHANGED <<renderVars, rangeVars, markdownVars, dashboardVars>>

\* DataIngestion.handleFetchData up to its await (DataIngestion.tsx lines
\* 45-49)
DataIngestion_handleFetchData ==
    /\ component = "DataIngestion"
    /\ ~Disabled("Fetch Data")
    /\ StartRequest(Call("handleFetchData", <<>>))
    /\ UNCHANGED <<component, dataVars>>
    /\ UNCHANGED <<renderVars, rangeVars, markdownVars, dashboardVars>>

\* DataIngestion.handleFetchData after its await (lines 49-56); the render
\* reads financialData.length and the fields of every row (lines 59, 149-155)
DataIngestion_handleFetchData_Settled ==
    /\ component = "DataIngestion"
    /\ \E i \in 1..Len(requests) : \E outcome \in Settlements :
        /\ requests[i].handler = "handleFetchData"
        /\ IF outcome = "ok"
           THEN /\ financialData' = "rows"
                /\ Finish(i)
           ELSE IF outcome = "malformed"
           THEN /\ financialData' = "malformed"
                /\ Crash(i)
           ELSE /\ financialData' = financialData
                /\ Fail(i, "Failed to fetch data. Please try again.")
    /\ UNCHANGED <<recentActivity, stock, timeframe, analysis, feedback,
                   reportTemplate, reportState>>
    /\ UNCHANGED <<renderVars, rangeVars, markdownVars, dashboardVars>>

\* the onChange handlers of the MarketAnalysis inputs (MarketAnalysis.tsx
\* lines 143, 156, 194); the feedback field is rendered with the results
MarketAnalysis_onChange ==
    /\ component = "MarketAnalysis"
    /\ \/ \E value \in {"", "AAPL"} \ {stock} :
              stock' = value /\ UNCHANGED <<timeframe, feedback>>
       \/ \E value \in Timeframes \ {timeframe} :
              timeframe' = value /\ UNCHANGED <<stock, feedback>>
       \/ /\ analysis # "null"
          /\ \E value \in {"", "agree"} \ {feedback} :
                 feedback' = value /\ UNCHANGED <<stock, timeframe>>
    /\ UNCHANGED <<component, loading, error, requests, recentActivity,
                   financialData, analysis, reportTemplate, reportState>>
    /\ UNCHANGED <<renderVars, rangeVars, markdownVars, dashboardVars>>

\* MarketAnalysis.handleAnalysis up to its return or its await (lines 47-56)
MarketAnalysis_handleAnalysis ==
    /\ component = "MarketAnalysis"
    /\ ~Disabled("Run Analysis")
    /\ IF stock = ""
       THEN /\ error' = "Please enter a stock symbol"
            /\ UNCHANGED <<loading, requests>>
       ELSE StartRequest(Call("handleAnalysis", <<stock, timeframe>>))
    /\ UNCHANGED <<component, dataVars>>
    /\ UNCHANGED <<renderVars, rangeVars, markdownVars, dashboardVars>>

\* MarketAnalysis.handleAnalysis after its await (lines 56-63); the render
\* reads prediction.last_price.toFixed and prediction.forecast.length (lines
\* 87, 178)
MarketAnalysis_handleAnalysis_Settled ==
    /\ component = "MarketAnalysis"
    /\ \E i \in 1..Len(requests) : \E outcome \in Settlements :
        /\ requests[i].handler = "handleAnalysis"
        /\ IF outcome = "ok"
           THEN /\ analysis' = "result"
                /\ Finish(i)
           ELSE IF outcome = "malformed"
           THEN /\ analysis' = "malformed"
                /\ Crash(i)
           ELSE /\ analysis' = analysis
                /\ Fail(i, "Failed to run analysis. Please try again.")
    /\ UNCHANGED <<recentActivity, financialData, stock, timeframe, feedback,
                   reportTemplate, reportState>>
    /\ UNCHANGED <<renderVars, rangeVars, markdownVars, dashboardVars>>

\* MarketAnalysis.handleFeedbackSubmit up to its return or its await (lines
\* 66-75); its button is rendered with the results (lines 173, 201-207)
MarketAnalysis_handleFeedbackSubmit ==
    /\ component = "MarketAnalysis"
    /\ analysis # "null"
    /\ ~Disabled("Submit Feedback")
    /\ IF feedback = ""
       THEN /\ error' = "Please provide your feedback."
            /\ UNCHANGED <<loading, requests>>
       ELSE StartRequest(Call("handleFeedbackSubmit", <<stock, feedback>>))
    /\ UNCHANGED <<component, dataVars>>
    /\ UNCHANGED <<renderVars, rangeVars, markdownVars, dashboardVars>>

\* MarketAnalysis.handleFeedbackSubmit after its await (lines 75-83): the
\* response is not read
MarketAnalysis_handleFeedbackSubmit_Settled ==
    /\ component = "MarketAnalysis"
    /\ \E i \in 1..Len(requests) : \E outcome \in Settlements \ {"malformed"} :
        /\ requests[i].handler = "handleFeedbackSubmit"
        /\ IF outcome = "ok"
           THEN /\ feedback' = ""
                /\ Finish(i)
           ELSE /\ feedback' = feedback
                /\ Fail(i, "Failed to submit feedback. Please try again.")
    /\ UNCHANGED <<recentActivity, financialData, stock, timeframe, analysis,
                   reportTemplate, reportState>>
    /\ UNCHANGED <<renderVars, rangeVars, markdownVars, dashboardVars>>

\* the onChange handler of the report template select (Reports, line 123)
Reports_onChange ==
    /\ component = "Reports"
    /\ \E value \in ReportTemplates \ {reportTemplate} : reportTemplate' = value
    /\ UNCHANGED <<component, loading, error, requests, recentActivity,
                   financialData, stock, timeframe, analysis, feedback,
                   reportState>>
    /\ UNCHANGED <<renderVars, rangeVars, markdownVars, dashboardVars>>

\* Reports.handleGenerateReport up to its await (lines 50-54)
Reports_handleGenerateReport ==
    /\ component = "Reports"
    /\ ~Disabled("Generate Report")
    /\ StartRequest(Call("handleGenerateReport", <<"AAPL", reportTemplate>>))
    /\ UNCHANGED <<component, dataVars>>
    /\ UNCHANGED <<renderVars, rangeVars, markdownVars, dashboardVars>>

\* Reports.handleGenerateReport after its await (lines 54-61); the render
\* shows report.content, whatever it is (lines 145-150)
Reports_handleGenerateReport_Settled ==
    /\ component = "Reports"
    /\ \E i \in 1..Len(requests) : \E outcome \in Settlements :
        /\ requests[i].handler = "handleGenerateReport"
        /\ IF outcome = "ok"
           THEN /\ reportState' = requests[i].arguments[2]
                /\ Finish(i)
           ELSE IF outcome = "malformed"
           THEN /\ reportState' = "malformed"
                /\ Finish(i)
           ELSE /\ reportState' = reportState
                /\ Fail(i, "Failed to generate report. Please try again.")
    /\ UNCHANGED <<recentActivity, financialData, stock, timeframe, analysis,
                   feedback, reportTemplate>>
    /\ UNCHANGED <<renderVars, rangeVars, markdownVars, dashboardVars>>

NextReact ==
    \/ Dashboard_handleFetchData
    \/ Dashboard_handleFetchData_Settled
    \/ Dashboard_handleGenerateReport
    \/ Dashboard_handleGenerateReport_Settled
    \/ DataIngestion_handleFetchData
    \/ DataIngestion_handleFetchData_Settled
    \/ MarketAnalysis_onChange
    \/ MarketAnalysis_handleAnalysis
    \/ MarketAnalysis_handleAnalysis_Settled
    \/ MarketAnalysis_handleFeedbackSubmit
    \/ MarketAnalysis_handleFeedbackSubmit_Settled
    \/ Reports_onChange
    \/ Reports_handleGenerateReport
    \/ Reports_handleGenerateReport_Settled

SpecReact == InitReact /\ [][NextReact]_vars

----------------------------------------------------------------------------
(* C28 *)

\* C28: in the mounted page component, a request handler has set loading to
\* true and error to null when its request goes out, and loading is false
\* once the request has settled, resolved or rejected: at most one request of
\* the component is in flight, loading is true exactly while one is, and no
\* error is set while one is.
C28_LoadingWhileInFlight ==
    component \in PageComponents =>
        /\ Len(requests) <= 1
        /\ loading <=> requests # <<>>
        /\ loading => error = "null"

\* MarketAnalysis after an analysis that failed and one that succeeded: the
\* feedback request is in flight, loading is true and the error is cleared
C28_Witness ==
    /\ component = "MarketAnalysis"
    /\ analysis = "result"
    /\ requests = <<Call("handleFeedbackSubmit", <<"AAPL", "agree">>)>>
    /\ loading
    /\ error = "null"

\* Dashboard after a fetch that succeeded and a report request that was
\* rejected: loading is false again and the error is shown
C28_WitnessFailure ==
    /\ component = "Dashboard"
    /\ recentActivity = <<"fetched", "analysis">>
    /\ requests = <<>>
    /\ ~loading
    /\ error = "Failed to generate report. Please try again."

====
